---------------------------- MODULE Spec2Model ----------------------------
(***************************************************************************)
(* Routing-and-failover core of the CLIProxyAPI gateway.                   *)
(*                                                                         *)
(*   - the quota state machine of sdk/cliproxy/auth/quota.go               *)
(*     (IsQuotaExhausted, UpdateQuotaFromInfo, UpdateQuotaFrom429,         *)
(*     ClearQuotaState) over one QuotaState record;                        *)
(*   - the candidate router of the routing package (ModelRouter:           *)
(*     UpdateConfig, GetCandidates, RecordSuccess, findRouteEntry,         *)
(*     autoSearchModels and the pure helpers they call).                   *)
(*                                                                         *)
(* A time.Time is a natural number; 0 is the zero time (IsZero).  A string *)
(* is a sequence of one-character strings, so that TrimSpace, ToLower,     *)
(* Contains and Split are computed the way the Go code computes them.      *)
(***************************************************************************)
EXTENDS Integers, Sequences, FiniteSets, TLC

VARIABLES
    q,          \* the QuotaState record of one (provider, authID, model) key
    clock,      \* time.Now() as the caller of the quota functions sees it
    call,       \* the last quota call: its name, arguments and return value
    cfg,        \* ModelRouter.cfg: <<>> (nil) or <<the configuration in force>>
    routes,     \* ModelRouter.routes: exact index, lowercase name -> entry
    fuzzy,      \* ModelRouter.fuzzy: the fuzzy entries, in configured order
    cache,      \* ModelRouter.cache: <<>> (nil) or <<location the RouteCache is bound to>>
    store,      \* the durable success store: location -> (virtual model -> actual model)
    ret,        \* the last router call: its name, arguments and return value
    recorded,   \* history: per virtual model, the last success reported while enabled
    nReports,   \* history: the number of successes reported while enabled
    qcache,     \* *QuotaCache: <<>> (nil) or <<[entries, ttl]>>
    qcall,      \* the last QuotaCache call: its name, arguments and return value
    lastSet,    \* history: per cache key, the last Set not followed by an Invalidate
    fcall,      \* the last call of a function of the router: arguments and result
    rmu,        \* ModelRouter.mu: the goroutines that hold or await the lock
    cmu,        \* QuotaCache.mu: the goroutines that hold or await the lock
    pc,         \* per goroutine: the statement it executes next
    frame,      \* per goroutine: the arguments and locals of its call
    heap,       \* the quotaCacheEntry values allocated so far, by address
    published,  \* history: the configuration of the last UpdateConfig that returned
    cooled,     \* history: <<the cooldown of the last scheduled 429 of the record's run>>
    kmu,        \* RouteCache's own lock: the goroutines that hold or await it
    imu,        \* identity Service.mu: the goroutines that hold or await the lock
    idcache,    \* identity Service.cache: auth ID -> address of a Fingerprint
    fpheap      \* the Fingerprint values allocated so far, by address

vars == <<q, clock, call, cfg, routes, fuzzy, cache, store, ret, recorded, nReports,
          qcache, qcall, lastSet, fcall, rmu, cmu, pc, frame, heap, published,
          cooled, kmu, imu, idcache, fpheap>>
quotaVars == <<q, clock, call, cooled>>
routerVars == <<cfg, routes, fuzzy, cache, store, ret, recorded, nReports>>
quotaCacheVars == <<qcache, qcall, lastSet>>
funcVars == <<fcall>>
lockVars == <<rmu, cmu, pc, frame, heap, published, kmu, imu, idcache, fpheap>>

(***************************************************************************)
(* Bounds of the model.                                                    *)
(***************************************************************************)
\* The clock runs from 1 to MaxTime.
MaxTime == 3
\* A Retry-After duration is 0..MaxRetryAfter clock units.
MaxRetryAfter == 2
\* The backoffLevel argument of UpdateQuotaFrom429 is 0..MaxLevel.
MaxLevel == 3
\* RecordSuccess is called at most MaxReports times while routing is enabled.
MaxReports == 2
\* The generated wildcard patterns and texts have 0..MaxWordLen characters.
MaxWordLen == 5
\* The most hyphen-separated segments in a generated model name
MaxSegments == 3
\* The most candidates handed to sortCandidatesByProviderPriority
MaxCandidates == 3
\* The most content blocks in a generated message
MaxBlocks == 2
\* The clock of the concurrent quota cache runs from 1 to MaxRaceTime.
MaxRaceTime == 3
\* The concurrent callers of the quota cache call Set at most MaxSets times.
MaxSets == 2
\* The clock of the quota cache runs from 1 to MaxCacheTime.
MaxCacheTime == 8

(***************************************************************************)
(* Quota state machine: sdk/cliproxy/auth/quota.go                         *)
(***************************************************************************)
ZeroTime == 0

IsZero(t) == t = ZeroTime

\* t.After(u)
After(t, u) == t > u

\* The cooldown schedule: base and cap, in clock units.
quotaBackoffBase == 1
quotaBackoffMax == 4

RECURSIVE Pow2(_)
Pow2(n) == IF n <= 0 THEN 1 ELSE 2 * Pow2(n - 1)

\* nextQuotaCooldown(prevLevel) = <<cooldown, nextLevel>>: an increasing,
\* capped schedule that advances to the next level until the cap is reached.
nextQuotaCooldown(prevLevel) ==
    LET level == IF prevLevel < 0 THEN 0 ELSE prevLevel
        cooldown == quotaBackoffBase * Pow2(level)
    IN IF cooldown >= quotaBackoffMax
       THEN <<quotaBackoffMax, level>>
       ELSE <<cooldown, level + 1>>

\* QuotaState{}: the zero value of the record.
ZeroQuotaState ==
    [Total |-> 0, Remaining |-> 0, ResetAt |-> ZeroTime,
     NextRecoverAt |-> ZeroTime, Exceeded |-> FALSE, Reason |-> "",
     BackoffLevel |-> 0, UpdatedAt |-> ZeroTime, Source |-> ""]

\* The records a caller may hold when it first calls the quota functions:
\* the fields are public, and the owner of a record may have set any of
\* the fields that IsQuotaExhausted reads.
InitialQuotaStates ==
    {[ZeroQuotaState EXCEPT !.Total = t, !.Remaining = r, !.ResetAt = ra,
                            !.NextRecoverAt = nr, !.Exceeded = e] :
        t \in {-1, 0, 2}, r \in {-1, 0, 1}, ra \in {0, 1, MaxTime},
        nr \in {0, 2, MaxTime + 1}, e \in BOOLEAN}

\* Variant: reports available when no reset time is set.
IsQuotaExhausted_unsetAvailable(s, now) ==
    IF s.Exceeded
    THEN LET resetTime == IF IsZero(s.ResetAt) THEN s.NextRecoverAt ELSE s.ResetAt
         IN IF ~IsZero(resetTime) /\ After(resetTime, now) THEN <<TRUE, resetTime>>
            ELSE <<FALSE, ZeroTime>>
    ELSE IF s.Remaining = 0 /\ s.Total > 0
    THEN LET resetTime == IF IsZero(s.ResetAt) THEN s.NextRecoverAt ELSE s.ResetAt
         IN IF ~IsZero(resetTime) /\ After(resetTime, now) THEN <<TRUE, resetTime>>
            ELSE <<FALSE, ZeroTime>>
    ELSE <<FALSE, ZeroTime>>

\* Variant: prefers NextRecoverAt over ResetAt.
IsQuotaExhausted_preferNext(s, now) ==
    LET resetTime == IF IsZero(s.NextRecoverAt) THEN s.ResetAt ELSE s.NextRecoverAt
    IN IF s.Exceeded \/ (s.Remaining = 0 /\ s.Total > 0)
       THEN IF ~IsZero(resetTime) /\ After(resetTime, now) THEN <<TRUE, resetTime>>
            ELSE IF ~IsZero(resetTime) THEN <<FALSE, ZeroTime>>
            ELSE <<TRUE, ZeroTime>>
       ELSE <<FALSE, ZeroTime>>

\* IsQuotaExhausted(q, now) = <<exhausted, resetTime>>
IsQuotaExhausted(s, now) ==
    IF s.Exceeded
    THEN LET resetTime == IF IsZero(s.ResetAt) THEN s.NextRecoverAt ELSE s.ResetAt
         IN IF ~IsZero(resetTime) /\ After(resetTime, now) THEN <<TRUE, resetTime>>
            ELSE IF ~IsZero(resetTime) /\ ~After(resetTime, now) THEN <<FALSE, ZeroTime>>
            ELSE <<TRUE, ZeroTime>>
    ELSE IF s.Remaining = 0 /\ s.Total > 0
    THEN LET resetTime == IF IsZero(s.ResetAt) THEN s.NextRecoverAt ELSE s.ResetAt
         IN IF ~IsZero(resetTime) /\ After(resetTime, now) THEN <<TRUE, resetTime>>
            ELSE IF ~IsZero(resetTime) THEN <<FALSE, ZeroTime>>
            ELSE <<TRUE, ZeroTime>>
    ELSE <<FALSE, ZeroTime>>

\* GetEffectiveResetTime(q)
GetEffectiveResetTime(s) ==
    IF ~IsZero(s.ResetAt) THEN s.ResetAt ELSE s.NextRecoverAt

\* Variant: overwrites NextRecoverAt with info.ResetAt even when it is already set.
UpdateQuotaFromInfo_overwriteNext(s, info) ==
    LET copied == [s EXCEPT !.Total = info.Total, !.Remaining = info.Remaining,
                            !.ResetAt = info.ResetAt, !.UpdatedAt = info.FetchedAt,
                            !.Source = info.Source]
    IN IF info.Remaining = 0 /\ info.Total > 0
       THEN [copied EXCEPT !.Exceeded = TRUE, !.Reason = "quota_exhausted",
                           !.NextRecoverAt = IF ~IsZero(info.ResetAt)
                                             THEN info.ResetAt ELSE @]
       ELSE copied

\* Variant: marks the state exceeded whenever Remaining is not positive.
UpdateQuotaFromInfo_unknownExhausts(s, info) ==
    LET copied == [s EXCEPT !.Total = info.Total, !.Remaining = info.Remaining,
                            !.ResetAt = info.ResetAt, !.UpdatedAt = info.FetchedAt,
                            !.Source = info.Source]
    IN IF info.Remaining <= 0
       THEN [copied EXCEPT !.Exceeded = TRUE, !.Reason = "quota_exhausted",
                           !.NextRecoverAt = IF IsZero(@) /\ ~IsZero(info.ResetAt)
                                             THEN info.ResetAt ELSE @]
       ELSE copied

\* Variant: a fetch that reports quota left takes the exhaustion mark away.
UpdateQuotaFromInfo_availableClears(s, info) ==
    LET copied == [s EXCEPT !.Total = info.Total, !.Remaining = info.Remaining,
                            !.ResetAt = info.ResetAt, !.UpdatedAt = info.FetchedAt,
                            !.Source = info.Source]
    IN IF info.Remaining = 0 /\ info.Total > 0
       THEN [copied EXCEPT !.Exceeded = TRUE, !.Reason = "quota_exhausted",
                           !.NextRecoverAt = IF IsZero(@) /\ ~IsZero(info.ResetAt)
                                             THEN info.ResetAt ELSE @]
       ELSE IF info.Remaining > 0
       THEN [copied EXCEPT !.Exceeded = FALSE, !.Reason = ""]
       ELSE copied

\* UpdateQuotaFromInfo(q, info)
UpdateQuotaFromInfo(s, info) ==
    LET copied == [s EXCEPT !.Total = info.Total, !.Remaining = info.Remaining,
                            !.ResetAt = info.ResetAt, !.UpdatedAt = info.FetchedAt,
                            !.Source = info.Source]
    IN IF info.Remaining = 0 /\ info.Total > 0
       THEN [copied EXCEPT !.Exceeded = TRUE, !.Reason = "quota_exhausted",
                           !.NextRecoverAt = IF IsZero(@) /\ ~IsZero(info.ResetAt)
                                             THEN info.ResetAt ELSE @]
       ELSE copied

\* Variant: sets only NextRecoverAt and leaves ResetAt as it was.
UpdateQuotaFrom429_keepResetAt(s, retryAfter, now, backoffLevel) ==
    LET cd == nextQuotaCooldown(backoffLevel)
        next == IF retryAfter # <<>> THEN now + retryAfter[1]
                ELSE IF cd[1] > 0 THEN now + cd[1] ELSE ZeroTime
    IN [s EXCEPT !.Exceeded = TRUE, !.Reason = "quota", !.Remaining = 0,
                 !.UpdatedAt = now, !.Source = "429",
                 !.BackoffLevel = IF retryAfter # <<>> THEN @ ELSE cd[2],
                 !.NextRecoverAt = next]

\* Variant: always takes the cooldown schedule, ignoring retryAfter.
UpdateQuotaFrom429_ignoreRetryAfter(s, retryAfter, now, backoffLevel) ==
    LET cd == nextQuotaCooldown(backoffLevel)
        next == IF cd[1] > 0 THEN now + cd[1] ELSE ZeroTime
    IN [s EXCEPT !.Exceeded = TRUE, !.Reason = "quota", !.Remaining = 0,
                 !.UpdatedAt = now, !.Source = "429",
                 !.BackoffLevel = cd[2],
                 !.NextRecoverAt = next, !.ResetAt = next]

\* Variant: a server-provided retryAfter starts the schedule over.
UpdateQuotaFrom429_retryAfterResets(s, retryAfter, now, backoffLevel) ==
    LET cd == nextQuotaCooldown(backoffLevel)
        next == IF retryAfter # <<>> THEN now + retryAfter[1]
                ELSE IF cd[1] > 0 THEN now + cd[1] ELSE ZeroTime
    IN [s EXCEPT !.Exceeded = TRUE, !.Reason = "quota", !.Remaining = 0,
                 !.UpdatedAt = now, !.Source = "429",
                 !.BackoffLevel = IF retryAfter # <<>> THEN 0 ELSE cd[2],
                 !.NextRecoverAt = next, !.ResetAt = next]

\* UpdateQuotaFrom429(q, retryAfter, now, backoffLevel); the pointer
\* retryAfter is <<>> (nil) or <<d>> (a duration d).
UpdateQuotaFrom429(s, retryAfter, now, backoffLevel) ==
    LET cd == nextQuotaCooldown(backoffLevel)
        next == IF retryAfter # <<>> THEN now + retryAfter[1]
                ELSE IF cd[1] > 0 THEN now + cd[1] ELSE ZeroTime
    IN [s EXCEPT !.Exceeded = TRUE, !.Reason = "quota", !.Remaining = 0,
                 !.UpdatedAt = now, !.Source = "429",
                 !.BackoffLevel = IF retryAfter # <<>> THEN @ ELSE cd[2],
                 !.NextRecoverAt = next, !.ResetAt = next]

\* Variant: resets the flags and timestamps but keeps Total and Remaining.
ClearQuotaState_keepCounts(s, now) ==
    [s EXCEPT !.Exceeded = FALSE, !.Reason = "", !.NextRecoverAt = ZeroTime,
              !.BackoffLevel = 0, !.ResetAt = ZeroTime, !.UpdatedAt = now,
              !.Source = ""]

\* ClearQuotaState(q, now)
ClearQuotaState(s, now) ==
    [s EXCEPT !.Exceeded = FALSE, !.Reason = "", !.NextRecoverAt = ZeroTime,
              !.BackoffLevel = 0, !.Remaining = -1, !.Total = -1,
              !.ResetAt = ZeroTime, !.UpdatedAt = now, !.Source = ""]

(***************************************************************************)
(* The callers of the quota functions.                                     *)
(***************************************************************************)
Times == 0..(MaxTime + MaxRetryAfter + quotaBackoffMax + 1)

\* The QuotaInfo snapshots a fetcher can hand over at time now: the reset
\* time is unset, already past, or still to come.
QuotaInfos(now) ==
    [Total : {-1, 0, 2}, Remaining : {-1, 0, 1}, ResetAt : {ZeroTime, 1, now + 1},
     Source : {"api"}, FetchedAt : {now}]

NoCall == [op |-> "none"]

DoUpdateQuotaFromInfo ==
    /\ \E info \in QuotaInfos(clock) :
          /\ q' = UpdateQuotaFromInfo(q, info)
          /\ call' = [op |-> "UpdateQuotaFromInfo", info |-> info]
    /\ UNCHANGED <<clock, cooled, routerVars, quotaCacheVars, funcVars, lockVars>>

DoUpdateQuotaFrom429 ==
    /\ \E retryAfter \in {<<>>} \cup {<<d>> : d \in 0..MaxRetryAfter}, backoffLevel \in 0..MaxLevel :
          /\ q' = UpdateQuotaFrom429(q, retryAfter, clock, backoffLevel)
          /\ call' = [op |-> "UpdateQuotaFrom429", retryAfter |-> retryAfter,
                      now |-> clock, backoffLevel |-> backoffLevel]
          \* a run of scheduled calls: no retryAfter, the level is the record's
          /\ cooled' = IF retryAfter # <<>> THEN cooled
                       ELSE IF backoffLevel # q.BackoffLevel THEN <<>>
                       ELSE <<q'.NextRecoverAt - clock>>
    /\ UNCHANGED <<clock, routerVars, quotaCacheVars, funcVars, lockVars>>

DoClearQuotaState ==
    /\ q' = ClearQuotaState(q, clock)
    /\ call' = [op |-> "ClearQuotaState", now |-> clock, pre |-> q]
    /\ cooled' = <<>>
    /\ UNCHANGED <<clock, routerVars, quotaCacheVars, funcVars, lockVars>>

DoIsQuotaExhausted ==
    /\ call' = [op |-> "IsQuotaExhausted", now |-> clock,
                result |-> IsQuotaExhausted(q, clock)]
    /\ UNCHANGED <<q, clock, cooled, routerVars, quotaCacheVars, funcVars, lockVars>>

\* Time passes.
Tick ==
    /\ clock < MaxTime
    /\ clock' = clock + 1
    /\ call' = [op |-> "Tick"]
    /\ UNCHANGED <<q, cooled, routerVars, quotaCacheVars, funcVars, lockVars>>

(***************************************************************************)
(* Strings: sequences of one-character strings, with the operations of     *)
(* Go's strings package that the router uses.                              *)
(***************************************************************************)
UpperChars == <<"A","B","C","D","E","F","G","H","I","J","K","L","M",
                "N","O","P","Q","R","S","T","U","V","W","X","Y","Z">>
LowerChars == <<"a","b","c","d","e","f","g","h","i","j","k","l","m",
                "n","o","p","q","r","s","t","u","v","w","x","y","z">>
Digits == {"0","1","2","3","4","5","6","7","8","9"}

\* The upper-case letters, and the lower-case letter of each.
UpperSet == {UpperChars[i] : i \in 1..26}
LowerOf == [c \in UpperSet |-> LowerChars[CHOOSE i \in 1..26 : UpperChars[i] = c]]

ToLowerChar(c) == IF c \in UpperSet THEN LowerOf[c] ELSE c

\* strings.ToLower
ToLower(s) == [i \in 1..Len(s) |-> ToLowerChar(s[i])]

IsSpace(c) == c = " "

\* strings.TrimSpace
RECURSIVE TrimLeft(_)
TrimLeft(s) == IF s # <<>> /\ IsSpace(Head(s)) THEN TrimLeft(Tail(s)) ELSE s

RECURSIVE TrimRight(_)
TrimRight(s) ==
    IF s # <<>> /\ IsSpace(s[Len(s)]) THEN TrimRight(SubSeq(s, 1, Len(s) - 1)) ELSE s

TrimSpace(s) == TrimRight(TrimLeft(s))

\* strings.HasPrefix, strings.HasSuffix
HasPrefix(s, p) == Len(p) <= Len(s) /\ SubSeq(s, 1, Len(p)) = p
HasSuffix(s, p) == Len(p) <= Len(s) /\ SubSeq(s, Len(s) - Len(p) + 1, Len(s)) = p

\* strings.Index: the 0-based offset of the first occurrence of sub, or -1
Index(s, sub) ==
    LET at == {i \in 0..(Len(s) - Len(sub)) : SubSeq(s, i + 1, i + Len(sub)) = sub}
    IN IF at = {} THEN -1 ELSE CHOOSE i \in at : \A j \in at : i <= j

\* strings.Contains
Contains(s, sub) == Index(s, sub) >= 0

\* strings.Split(s, sep) for a one-character separator
RECURSIVE Split(_, _)
Split(s, sep) ==
    LET i == Index(s, <<sep>>)
    IN IF i < 0 THEN <<s>>
       ELSE <<SubSeq(s, 1, i)>> \o Split(SubSeq(s, i + 2, Len(s)), sep)

\* strings.Join(parts, sep) for a one-character separator
RECURSIVE Join(_, _)
Join(parts, sep) ==
    IF parts = <<>> THEN <<>>
    ELSE IF Len(parts) = 1 THEN parts[1]
    ELSE parts[1] \o <<sep>> \o Join(Tail(parts), sep)

(***************************************************************************)
(* Base-name extraction and family inference: routing package              *)
(***************************************************************************)
\* isDateLikeSuffix(s)
isDateLikeSuffix(s) ==
    IF Len(s) < 4 THEN FALSE
    ELSE IF \E i \in 1..Len(s) : s[i] \notin Digits THEN FALSE
    ELSE Len(s) = 4 \/ Len(s) = 8 \/ Len(s) = 6

W_latest == <<"l","a","t","e","s","t">>
W_preview == <<"p","r","e","v","i","e","w">>
W_beta == <<"b","e","t","a">>
W_alpha == <<"a","l","p","h","a">>

\* isVersionSuffix(s)
isVersionSuffix(s) ==
    LET l == ToLower(s)
    IN IF l = W_latest \/ l = W_preview \/ l = W_beta \/ l = W_alpha THEN TRUE
       ELSE IF Len(l) >= 2 /\ l[1] = "v"
            THEN \A i \in 2..Len(l) : l[i] = "." \/ l[i] \in Digits
       ELSE FALSE

\* The loop of extractBaseModelName: scanning from index i (1-based) down,
\* cutIndex moves to every strippable part until the first other part.
RECURSIVE cutIndexFrom(_, _, _)
cutIndexFrom(parts, i, cut) ==
    IF i < 1 THEN cut
    ELSE IF isDateLikeSuffix(parts[i]) \/ isVersionSuffix(parts[i])
         THEN cutIndexFrom(parts, i - 1, i - 1)
         ELSE cut

\* Variant: only the last segment is examined.
extractBaseModelName_lastOnly(modelName) ==
    LET name == TrimSpace(modelName)
        parts == Split(name, "-")
        last == parts[Len(parts)]
    IN IF name = <<>> THEN <<>>
       ELSE IF Len(parts) <= 1 THEN name
       ELSE IF isDateLikeSuffix(last) \/ isVersionSuffix(last)
            THEN Join(SubSeq(parts, 1, Len(parts) - 1), "-")
            ELSE name

\* extractBaseModelName(modelName); cutIndex counts the parts that are kept
extractBaseModelName(modelName) ==
    LET name == TrimSpace(modelName)
        parts == Split(name, "-")
        cutIndex == cutIndexFrom(parts, Len(parts), Len(parts))
    IN IF name = <<>> THEN <<>>
       ELSE IF Len(parts) <= 1 THEN name
       ELSE IF cutIndex = 0 THEN name
       ELSE Join(SubSeq(parts, 1, cutIndex), "-")

K_claude == <<"c","l","a","u","d","e">>
K_sonnet == <<"s","o","n","n","e","t">>
K_opus == <<"o","p","u","s">>
K_haiku == <<"h","a","i","k","u">>
K_gpt == <<"g","p","t">>
K_o1 == <<"o","1">>
K_o3 == <<"o","3">>
K_codex == <<"c","o","d","e","x">>
K_gemini == <<"g","e","m","i","n","i">>
K_qwen == <<"q","w","e","n">>

\* inferModelFamily(baseName): "claude", "gpt", "gemini", "qwen" or ""
inferModelFamily(baseName) ==
    LET lower == ToLower(baseName)
    IN IF Contains(lower, K_claude) \/ Contains(lower, K_sonnet)
          \/ Contains(lower, K_opus) \/ Contains(lower, K_haiku) THEN "claude"
       ELSE IF Contains(lower, K_gpt) \/ Contains(lower, K_o1)
          \/ Contains(lower, K_o3) \/ Contains(lower, K_codex) THEN "gpt"
       ELSE IF Contains(lower, K_gemini) THEN "gemini"
       ELSE IF Contains(lower, K_qwen) THEN "qwen"
       ELSE ""

(***************************************************************************)
(* Model names, the registry and the configurations of the model.          *)
(***************************************************************************)
N_useFastTier == <<"u","s","e","-","f","a","s","t","-","t","i","e","r">>
N_gptx == <<"g","p","t","-","x">>
N_gptxPadded == <<" ","g","p","t","-","x">>
N_empty == <<>>

M_modelA == <<"m","o","d","e","l","-","a">>
M_modelB == <<"m","o","d","e","l","-","b">>
M_gptx0408 == <<"g","p","t","-","x","-","2","0","2","4","-","0","8">>
M_GPTXmini == <<"G","P","T","-","X","-","m","i","n","i">>
M_gptxOld == <<"g","p","t","-","x","-","o","l","d">>

\* The names callers ask GetCandidates for.
VirtualModels == {N_useFastTier, N_gptx, N_gptxPadded, N_empty}
\* The names callers report to RecordSuccess.
ReportedModels == {N_useFastTier, N_gptx, N_gptxPadded}
\* The models callers report as having served a request.
ActualModels == {M_modelB, M_gptx0408, <<>>}

\* reg.GetAvailableModels(""): the "id" of every registered model, in the
\* registry's order; an identifier may be listed twice or be empty.
registryModels == <<M_gptxOld, M_gptx0408, M_modelA, <<>>, M_GPTXmini, M_gptx0408, M_modelB>>

\* util.GetProviderName(modelID): the providers that serve modelID
GetProviderName(modelID) ==
    IF modelID = M_gptx0408 THEN <<"p1">>
    ELSE IF modelID = M_GPTXmini THEN <<"p3", "p2">>
    ELSE IF modelID = M_modelA THEN <<"p1">>
    ELSE IF modelID = M_modelB THEN <<"p2">>
    ELSE <<>>

Families == {"claude", "gpt", "gemini", "qwen", ""}
NoPriority == [f \in Families |-> <<>>]

\* config.ModelRouteEntry
Entry(name, isFuzzy, candidates) ==
    [Name |-> name, Fuzzy |-> isFuzzy, Candidates |-> candidates]

R_fast == Entry(<<"f","a","s","t">>, TRUE, <<M_modelA, M_modelB>>)
R_FAST == Entry(<<"F","A","S","T">>, TRUE, <<M_modelB>>)
R_GPTX == Entry(<<" ","G","P","T","-","X"," ">>, FALSE, <<M_gptx0408, M_modelA, M_gptx0408>>)
R_gptx == Entry(N_gptx, FALSE, <<M_modelB, M_modelA, M_modelB>>)
R_blank == Entry(<<" "," ">>, FALSE, <<M_modelA>>)
R_gpt == Entry(<<"g","p","t">>, TRUE, <<M_GPTXmini>>)

F_default == <<"model-routing-cache.json">>
F_alt == <<"alt.json">>

\* config.ModelRoutingConfig; CacheFile is <<>> for the empty string
C_fuzzy == [Enabled |-> TRUE, AutoSearch |-> FALSE, Routes |-> <<R_fast>>,
            NativeProviderPriority |-> NoPriority, CacheFile |-> <<>>]
C_exact == [Enabled |-> TRUE, AutoSearch |-> TRUE,
            Routes |-> <<R_gpt, R_GPTX, R_blank, R_FAST, R_gptx, R_fast>>,
            NativeProviderPriority |-> NoPriority, CacheFile |-> F_default]
C_auto == [Enabled |-> TRUE, AutoSearch |-> TRUE, Routes |-> <<>>,
           NativeProviderPriority |-> [NoPriority EXCEPT !["gpt"] = <<"p2", "p1", "p2">>,
                                                         !["claude"] = <<"p2", "p1">>],
           CacheFile |-> F_alt]
C_noAuto == [Enabled |-> TRUE, AutoSearch |-> FALSE, Routes |-> <<>>,
             NativeProviderPriority |-> NoPriority, CacheFile |-> <<>>]
C_off == [Enabled |-> FALSE, AutoSearch |-> TRUE, Routes |-> <<R_fast, R_gptx>>,
          NativeProviderPriority |-> NoPriority, CacheFile |-> <<>>]

\* The *config.ModelRoutingConfig values handed to UpdateConfig: <<>> is nil.
Configs == {<<>>, <<C_fuzzy>>, <<C_exact>>, <<C_auto>>, <<C_noAuto>>, <<C_off>>}
AuthDirs == {"auth"}

\* The file a RouteCache is bound to: filepath.Join(authDir, cacheFile).
Location(authDir, cacheFile) == <<authDir, cacheFile>>
Locations == {Location(d, f) : d \in AuthDirs, f \in {F_default, F_alt}}

(***************************************************************************)
(* Maps (Go map[string]T): functions whose domain is the set of keys.       *)
(***************************************************************************)
EmptyMap == [k \in {} |-> <<>>]
MapPut(m, k, v) == [x \in (DOMAIN m) \cup {k} |-> IF x = k THEN v ELSE m[x]]

(***************************************************************************)
(* Route success cache: RouteCache                                         *)
(***************************************************************************)
\* RouteCache.Get(virtualModel): the stored model, or "" when there is none
CacheGet(virtualModel) ==
    LET data == store[cache[1]]
    IN IF virtualModel \in DOMAIN data THEN data[virtualModel] ELSE <<>>

\* RouteCache.Set(virtualModel, actualModel): writes through to the store
CacheSet(virtualModel, actualModel) ==
    store' = [store EXCEPT ![cache[1]] = MapPut(@, virtualModel, actualModel)]

(***************************************************************************)
(* Candidate router: ModelRouter                                           *)
(***************************************************************************)
\* IsEnabled()
IsEnabled == cfg # <<>> /\ cfg[1].Enabled

\* Variant: the first non-fuzzy rule of a name keeps its place in the index.
RECURSIVE buildIndexes_firstWins(_, _, _, _)
buildIndexes_firstWins(rs, i, exact, fz) ==
    IF i > Len(rs) THEN <<exact, fz>>
    ELSE LET entry == rs[i]
             name == TrimSpace(entry.Name)
         IN IF name = <<>> THEN buildIndexes_firstWins(rs, i + 1, exact, fz)
            ELSE IF entry.Fuzzy
                 THEN buildIndexes_firstWins(rs, i + 1, exact, Append(fz, entry))
            ELSE IF ToLower(name) \in DOMAIN exact
                 THEN buildIndexes_firstWins(rs, i + 1, exact, fz)
            ELSE buildIndexes_firstWins(rs, i + 1, MapPut(exact, ToLower(name), entry), fz)

\* The index loop of UpdateConfig over cfg.Routes[i..], from the maps built
\* so far: <<routes, fuzzy>>.
RECURSIVE buildIndexes(_, _, _, _)
buildIndexes(rs, i, exact, fz) ==
    IF i > Len(rs) THEN <<exact, fz>>
    ELSE LET entry == rs[i]
             name == TrimSpace(entry.Name)
         IN IF name = <<>> THEN buildIndexes(rs, i + 1, exact, fz)
            ELSE IF entry.Fuzzy THEN buildIndexes(rs, i + 1, exact, Append(fz, entry))
            ELSE buildIndexes(rs, i + 1, MapPut(exact, ToLower(name), entry), fz)

\* Variant: a nil or disabled configuration leaves the indexes as they were.
UpdateConfig_keepIndexes(c, authDir) ==
    /\ cfg' = c
    /\ IF c = <<>> \/ ~c[1].Enabled
       THEN UNCHANGED <<routes, fuzzy, cache, store>>
       ELSE LET built == buildIndexes(c[1].Routes, 1, EmptyMap, <<>>)
                cacheFile == IF c[1].CacheFile = <<>> THEN F_default ELSE c[1].CacheFile
            IN /\ routes' = built[1]
               /\ fuzzy' = built[2]
               /\ cache' = <<Location(authDir, cacheFile)>>
               /\ UNCHANGED store

\* UpdateConfig(cfg, authDir)
UpdateConfig(c, authDir) ==
    /\ cfg' = c
    /\ IF c = <<>> \/ ~c[1].Enabled
       THEN /\ routes' = EmptyMap
            /\ fuzzy' = <<>>
            /\ UNCHANGED <<cache, store>>
       ELSE LET built == buildIndexes(c[1].Routes, 1, EmptyMap, <<>>)
                cacheFile == IF c[1].CacheFile = <<>> THEN F_default ELSE c[1].CacheFile
            IN /\ routes' = built[1]
               /\ fuzzy' = built[2]
               /\ cache' = <<Location(authDir, cacheFile)>>
               /\ UNCHANGED store

\* The fuzzy loop of findRouteEntry over r.fuzzy[i..].
RECURSIVE firstFuzzy(_, _)
firstFuzzy(lowerName, i) ==
    IF i > Len(fuzzy) THEN <<>>
    ELSE IF Contains(lowerName, ToLower(fuzzy[i].Name)) THEN <<fuzzy[i]>>
    ELSE firstFuzzy(lowerName, i + 1)

\* Variant: tries the fuzzy entries before the exact index.
findRouteEntry_fuzzyFirst(modelName) ==
    LET lowerName == ToLower(modelName)
    IN IF firstFuzzy(lowerName, 1) # <<>> THEN firstFuzzy(lowerName, 1)
       ELSE IF lowerName \in DOMAIN routes THEN <<routes[lowerName]>>
       ELSE <<>>

\* findRouteEntry(modelName): <<>> (nil) or <<entry>>
findRouteEntry(modelName) ==
    LET lowerName == ToLower(modelName)
    IN IF lowerName \in DOMAIN routes THEN <<routes[lowerName]>>
       ELSE firstFuzzy(lowerName, 1)

\* The priorityMap loop of sortCandidatesByProviderPriority: a provider
\* listed twice keeps the index of its last occurrence (0-based).
priorityMapOf(priorityList) ==
    [p \in {priorityList[i] : i \in 1..Len(priorityList)} |->
        (CHOOSE i \in 1..Len(priorityList) :
            /\ priorityList[i] = p
            /\ \A j \in 1..Len(priorityList) : priorityList[j] = p => j <= i) - 1]

Unprioritized == 9999

\* getBestProviderPriority(providers, priorityMap)
RECURSIVE bestFrom(_, _, _, _)
bestFrom(providers, priorityMap, i, best) ==
    IF i > Len(providers) THEN best
    ELSE IF providers[i] \in DOMAIN priorityMap /\ priorityMap[providers[i]] < best
         THEN bestFrom(providers, priorityMap, i + 1, priorityMap[providers[i]])
         ELSE bestFrom(providers, priorityMap, i + 1, best)

getBestProviderPriority(providers, priorityMap) ==
    bestFrom(providers, priorityMap, 1, Unprioritized)

\* sort.SliceStable by getBestProviderPriority: each candidate is inserted
\* behind the candidates already placed whose priority is not greater.
RECURSIVE insertStable(_, _, _)
insertStable(sorted, c, priorityMap) ==
    IF sorted = <<>> THEN <<c>>
    ELSE IF getBestProviderPriority(c.providers, priorityMap)
            < getBestProviderPriority(Head(sorted).providers, priorityMap)
         THEN <<c>> \o sorted
         ELSE <<Head(sorted)>> \o insertStable(Tail(sorted), c, priorityMap)

RECURSIVE sliceStable(_, _, _)
sliceStable(candidates, i, priorityMap) ==
    IF i < 1 THEN <<>>
    ELSE insertStable(sliceStable(candidates, i - 1, priorityMap), candidates[i], priorityMap)

\* sortCandidatesByProviderPriority(candidates, baseName)
sortCandidatesByProviderPriority(candidates, baseName) ==
    LET family == inferModelFamily(baseName)
        priorityList == IF cfg # <<>> THEN cfg[1].NativeProviderPriority[family] ELSE <<>>
        sorted == sliceStable(candidates, Len(candidates), priorityMapOf(priorityList))
    IN IF Len(priorityList) = 0
       THEN [i \in 1..Len(candidates) |-> candidates[i].modelID]
       ELSE [i \in 1..Len(sorted) |-> sorted[i].modelID]

\* Variant: the scan does not ask whether a model is served and remembers
\* no identifier.
RECURSIVE collectCandidates_everyMatch(_, _, _)
collectCandidates_everyMatch(lowerBase, i, infos) ==
    IF i > Len(registryModels) THEN infos
    ELSE LET modelID == registryModels[i]
         IN IF modelID # <<>> /\ Contains(ToLower(modelID), lowerBase)
            THEN collectCandidates_everyMatch(lowerBase, i + 1,
                     Append(infos, [modelID |-> modelID,
                                    providers |-> GetProviderName(modelID)]))
            ELSE collectCandidates_everyMatch(lowerBase, i + 1, infos)

\* The registry scan of autoSearchModels over allModels[i..]: the
\* candidateInfo values collected so far (seen is the set of their modelIDs).
RECURSIVE collectCandidates(_, _, _)
collectCandidates(lowerBase, i, infos) ==
    IF i > Len(registryModels) THEN infos
    ELSE LET modelID == registryModels[i]
             providers == GetProviderName(modelID)
             seen == {infos[k].modelID : k \in 1..Len(infos)}
         IN IF modelID = <<>> THEN collectCandidates(lowerBase, i + 1, infos)
            ELSE IF Contains(ToLower(modelID), lowerBase) /\ Len(providers) > 0
                    /\ modelID \notin seen
                 THEN collectCandidates(lowerBase, i + 1,
                          Append(infos, [modelID |-> modelID, providers |-> providers]))
                 ELSE collectCandidates(lowerBase, i + 1, infos)

\* autoSearchModels(modelName)
autoSearchModels(modelName) ==
    LET baseName == extractBaseModelName(modelName)
        candidatesInfo == collectCandidates(ToLower(baseName), 1, <<>>)
    IN IF baseName = <<>> THEN <<>>
       ELSE IF Len(candidatesInfo) = 0 THEN <<>>
       ELSE sortCandidatesByProviderPriority(candidatesInfo, baseName)

\* The filter loops of GetCandidates: list without the elements equal to x.
RECURSIVE without(_, _)
without(list, x) ==
    IF list = <<>> THEN <<>>
    ELSE IF Head(list) # x THEN <<Head(list)>> \o without(Tail(list), x)
    ELSE without(Tail(list), x)

\* Variant: removes only the first occurrence of the cached model.
RECURSIVE withoutFirst(_, _)
withoutFirst(list, x) ==
    IF list = <<>> THEN <<>>
    ELSE IF Head(list) # x THEN <<Head(list)>> \o withoutFirst(Tail(list), x)
    ELSE Tail(list)

\* Variant: the rule's candidates are returned as configured even when the
\* success cache holds a model.
GetCandidates_ignoreCache(modelNameArg) ==
    LET modelName == TrimSpace(modelNameArg)
        entry == findRouteEntry(modelName)
    IN IF ~IsEnabled THEN <<>>
       ELSE IF modelName = <<>> THEN <<>>
       ELSE IF entry # <<>> THEN entry[1].Candidates
       ELSE IF cfg # <<>> /\ cfg[1].AutoSearch THEN autoSearchModels(modelName)
       ELSE <<>>

\* Variant: keeps later occurrences of the cached model in the list.
GetCandidates_keepDuplicates(modelNameArg) ==
    LET modelName == TrimSpace(modelNameArg)
        cached == IF cache # <<>> THEN CacheGet(modelName) ELSE <<>>
        entry == findRouteEntry(modelName)
        autoResults == autoSearchModels(modelName)
    IN IF ~IsEnabled THEN <<>>
       ELSE IF modelName = <<>> THEN <<>>
       ELSE IF cached # <<>>
            THEN IF entry # <<>> THEN <<cached>> \o withoutFirst(entry[1].Candidates, cached)
                 ELSE IF Len(autoResults) > 0 THEN <<cached>> \o withoutFirst(autoResults, cached)
                 ELSE <<cached>>
       ELSE IF entry # <<>> THEN entry[1].Candidates
       ELSE IF cfg # <<>> /\ cfg[1].AutoSearch THEN autoResults
       ELSE <<>>

\* Variant: with a cached model and no rule, the registry is searched only
\* when the configuration enables auto-search.
GetCandidates_cachedHonoursAutoSearch(modelNameArg) ==
    LET modelName == TrimSpace(modelNameArg)
        cached == IF cache # <<>> THEN CacheGet(modelName) ELSE <<>>
        entry == findRouteEntry(modelName)
        autoResults == autoSearchModels(modelName)
    IN IF ~IsEnabled THEN <<>>
       ELSE IF modelName = <<>> THEN <<>>
       ELSE IF cached # <<>>
            THEN IF entry # <<>> THEN <<cached>> \o without(entry[1].Candidates, cached)
                 ELSE IF cfg[1].AutoSearch /\ Len(autoResults) > 0
                      THEN <<cached>> \o without(autoResults, cached)
                 ELSE <<cached>>
       ELSE IF entry # <<>> THEN entry[1].Candidates
       ELSE IF cfg # <<>> /\ cfg[1].AutoSearch THEN autoResults
       ELSE <<>>

\* GetCandidates(modelName): the candidate list; <<>> is nil
GetCandidates(modelNameArg) ==
    LET modelName == TrimSpace(modelNameArg)
        cached == IF cache # <<>> THEN CacheGet(modelName) ELSE <<>>
        entry == findRouteEntry(modelName)
        autoResults == autoSearchModels(modelName)
    IN IF ~IsEnabled THEN <<>>
       ELSE IF modelName = <<>> THEN <<>>
       ELSE IF cached # <<>>
            THEN IF entry # <<>> THEN <<cached>> \o without(entry[1].Candidates, cached)
                 ELSE IF Len(autoResults) > 0 THEN <<cached>> \o without(autoResults, cached)
                 ELSE <<cached>>
       ELSE IF entry # <<>> THEN entry[1].Candidates
       ELSE IF cfg # <<>> /\ cfg[1].AutoSearch THEN autoResults
       ELSE <<>>

\* GetCandidates behind its IsEnabled test: the statements under the read
\* lock (lines 99-149)
lookupCandidates(modelNameArg) ==
    LET modelName == TrimSpace(modelNameArg)
        cached == IF cache # <<>> THEN CacheGet(modelName) ELSE <<>>
        entry == findRouteEntry(modelName)
        autoResults == autoSearchModels(modelName)
    IN IF modelName = <<>> THEN <<>>
       ELSE IF cached # <<>>
            THEN IF entry # <<>> THEN <<cached>> \o without(entry[1].Candidates, cached)
                 ELSE IF Len(autoResults) > 0 THEN <<cached>> \o without(autoResults, cached)
                 ELSE <<cached>>
       ELSE IF entry # <<>> THEN entry[1].Candidates
       ELSE IF cfg # <<>> /\ cfg[1].AutoSearch THEN autoResults
       ELSE <<>>

\* Variant: a repeated report of the same model drops the entry.
RecordSuccess_toggle(virtualModel, actualModel) ==
    IF ~IsEnabled THEN UNCHANGED store
    ELSE IF cache # <<>>
         THEN IF CacheGet(virtualModel) = actualModel
              THEN CacheSet(virtualModel, <<>>)
              ELSE CacheSet(virtualModel, actualModel)
         ELSE UNCHANGED store

\* RecordSuccess(virtualModel, actualModel)
RecordSuccess(virtualModel, actualModel) ==
    IF ~IsEnabled THEN UNCHANGED store
    ELSE IF cache # <<>> THEN CacheSet(virtualModel, actualModel)
    ELSE UNCHANGED store

(***************************************************************************)
(* The callers of the router.                                              *)
(***************************************************************************)
Ret(op, v, a, result) == [op |-> op, v |-> v, a |-> a, result |-> result]

NoReport == [v \in ReportedModels |-> <<>>]

DoUpdateConfig ==
    /\ \E c \in Configs, authDir \in AuthDirs :
          /\ UpdateConfig(c, authDir)
          /\ ret' = Ret("UpdateConfig", <<>>, <<>>, <<>>)
    \* a report made at another cache location is marked as moved
    /\ recorded' = IF cache' = cache \/ cache = <<>> THEN recorded
                   ELSE [v \in ReportedModels |->
                            IF recorded[v] = <<>> THEN <<>>
                            ELSE <<[recorded[v][1] EXCEPT !.moved = TRUE]>>]
    /\ UNCHANGED <<nReports, quotaVars, quotaCacheVars, funcVars, lockVars>>

DoGetCandidates ==
    /\ \E v \in VirtualModels :
          ret' = Ret("GetCandidates", v, <<>>, GetCandidates(v))
    /\ UNCHANGED <<cfg, routes, fuzzy, cache, store, recorded, nReports, quotaVars, quotaCacheVars, funcVars, lockVars>>

DoRecordSuccess ==
    /\ IsEnabled => nReports < MaxReports
    /\ nReports' = IF IsEnabled THEN nReports + 1 ELSE nReports
    /\ \E v \in ReportedModels, a \in ActualModels :
          /\ RecordSuccess(v, a)
          \* for a call that repeats the one before it, the result slot
          \* keeps what the first call left behind
          /\ ret' = Ret("RecordSuccess", v, a,
                        IF ret.op = "RecordSuccess" /\ ret.v = v /\ ret.a = a
                        THEN <<[store |-> store,
                                candidates |-> [x \in VirtualModels |-> GetCandidates(x)]]>>
                        ELSE <<>>)
          /\ recorded' = IF IsEnabled
                         THEN [recorded EXCEPT ![v] = <<[a |-> a, moved |-> FALSE]>>]
                         ELSE recorded
    /\ UNCHANGED <<cfg, routes, fuzzy, cache, quotaVars, quotaCacheVars, funcVars, lockVars>>

(***************************************************************************)
(* Wildcard matching and candidate resolution.                             *)
(***************************************************************************)
\* The loop of matchWildcard over the interior parts parts[i..len(parts)-1],
\* on the text that is left.
RECURSIVE matchMiddle(_, _, _)
matchMiddle(parts, i, text) ==
    IF i > Len(parts) - 1 THEN TRUE
    ELSE IF parts[i] = <<>> THEN matchMiddle(parts, i + 1, text)
    ELSE LET idx == Index(text, parts[i])
         IN IF idx < 0 THEN FALSE
            ELSE matchMiddle(parts, i + 1,
                             SubSeq(text, idx + Len(parts[i]) + 1, Len(text)))

\* Variant: the part after the last * is not required to end the text.
matchWildcard_noSuffixCheck(patternArg, textArg) ==
    LET pattern == ToLower(patternArg)
        text == ToLower(textArg)
        parts == Split(pattern, "*")
        afterPrefix == SubSeq(text, Len(parts[1]) + 1, Len(text))
    IN IF pattern = <<"*">> THEN TRUE
       ELSE IF pattern = <<>> THEN text = <<>>
       ELSE IF ~Contains(pattern, <<"*">>) THEN pattern = text
       ELSE IF parts[1] # <<>> /\ ~HasPrefix(text, parts[1]) THEN FALSE
       ELSE matchMiddle(parts, 2, afterPrefix)

\* Variant: the suffix is looked for in the whole text, prefix included.
matchWildcard_overlap(patternArg, textArg) ==
    LET pattern == ToLower(patternArg)
        text == ToLower(textArg)
        parts == Split(pattern, "*")
        afterPrefix == SubSeq(text, Len(parts[1]) + 1, Len(text))
        lastPart == parts[Len(parts)]
        afterSuffix == IF lastPart # <<>> /\ Len(afterPrefix) >= Len(lastPart)
                       THEN SubSeq(afterPrefix, 1, Len(afterPrefix) - Len(lastPart))
                       ELSE afterPrefix
    IN IF pattern = <<"*">> THEN TRUE
       ELSE IF pattern = <<>> THEN text = <<>>
       ELSE IF ~Contains(pattern, <<"*">>) THEN pattern = text
       ELSE IF parts[1] # <<>> /\ ~HasPrefix(text, parts[1]) THEN FALSE
       ELSE IF lastPart # <<>> /\ ~HasSuffix(text, lastPart) THEN FALSE
       ELSE matchMiddle(parts, 2, afterSuffix)

\* matchWildcard(pattern, text)
matchWildcard(patternArg, textArg) ==
    LET pattern == ToLower(patternArg)
        text == ToLower(textArg)
        parts == Split(pattern, "*")
        afterPrefix == SubSeq(text, Len(parts[1]) + 1, Len(text))
        lastPart == parts[Len(parts)]
        afterSuffix == IF lastPart # <<>>
                       THEN SubSeq(afterPrefix, 1, Len(afterPrefix) - Len(lastPart))
                       ELSE afterPrefix
    IN IF pattern = <<"*">> THEN TRUE
       ELSE IF pattern = <<>> THEN text = <<>>
       ELSE IF ~Contains(pattern, <<"*">>) THEN pattern = text
       ELSE IF parts[1] # <<>> /\ ~HasPrefix(text, parts[1]) THEN FALSE
       ELSE IF lastPart # <<>> /\ ~HasSuffix(afterPrefix, lastPart) THEN FALSE
       ELSE matchMiddle(parts, 2, afterSuffix)

\* strings.LastIndex for a one-character separator, 1-based; 0 when absent
LastIndex(s, c) ==
    LET at == {i \in 1..Len(s) : s[i] = c}
    IN IF at = {} THEN 0 ELSE CHOOSE i \in at : \A j \in at : j <= i

\* thinking.ParseSuffix(model): splits a trailing "(suffix)" off the name
ParseSuffix(model) ==
    LET lastOpen == LastIndex(model, "(")
    IN IF lastOpen = 0 \/ ~HasSuffix(model, <<")">>)
       THEN [ModelName |-> model, HasSuffix |-> FALSE, RawSuffix |-> <<>>]
       ELSE [ModelName |-> SubSeq(model, 1, lastOpen - 1), HasSuffix |-> TRUE,
             RawSuffix |-> SubSeq(model, lastOpen + 1, Len(model) - 1)]

\* fmt.Sprintf("%s(%s)", model, suffix)
Sprintf(model, suffix) == model \o <<"(">> \o suffix \o <<")">>

\* The registry loop of ResolveFuzzyCandidate over allModels[i..]: the first
\* model that matches the pattern and has a provider, <<>> when none does.
RECURSIVE firstServed(_, _)
firstServed(pattern, i) ==
    IF i > Len(registryModels) THEN <<>>
    ELSE LET modelID == registryModels[i]
         IN IF /\ modelID # <<>>
               /\ matchWildcard(pattern, modelID)
               /\ Len(GetProviderName(modelID)) > 0
            THEN modelID
            ELSE firstServed(pattern, i + 1)

\* Variant: the first registry model that matches, served or not.
RECURSIVE firstMatching(_, _)
firstMatching(pattern, i) ==
    IF i > Len(registryModels) THEN <<>>
    ELSE IF registryModels[i] # <<>> /\ matchWildcard(pattern, registryModels[i])
         THEN registryModels[i]
         ELSE firstMatching(pattern, i + 1)

\* Variant: a wildcard pattern resolves without the provider check.
ResolveFuzzyCandidate_unserved(candidateArg) ==
    LET candidate == TrimSpace(candidateArg)
        parsed == ParseSuffix(candidate)
        pattern == parsed.ModelName
        suffix == IF parsed.HasSuffix THEN parsed.RawSuffix ELSE <<>>
        found == firstMatching(pattern, 1)
    IN IF candidate = <<>> THEN <<>>
       ELSE IF ~Contains(pattern, <<"*">>)
            THEN IF Len(GetProviderName(pattern)) > 0
                 THEN IF suffix # <<>> THEN Sprintf(pattern, suffix) ELSE pattern
                 ELSE <<>>
       ELSE IF found = <<>> THEN <<>>
       ELSE IF suffix # <<>> THEN Sprintf(found, suffix) ELSE found

\* Variant: the suffix is parsed off and not appended again.
ResolveFuzzyCandidate_dropSuffix(candidateArg) ==
    LET candidate == TrimSpace(candidateArg)
        pattern == ParseSuffix(candidate).ModelName
        found == firstServed(pattern, 1)
    IN IF candidate = <<>> THEN <<>>
       ELSE IF ~Contains(pattern, <<"*">>)
            THEN IF Len(GetProviderName(pattern)) > 0 THEN pattern ELSE <<>>
       ELSE found

\* ResolveFuzzyCandidate(candidate): the resolved identifier, <<>> for ""
ResolveFuzzyCandidate(candidateArg) ==
    LET candidate == TrimSpace(candidateArg)
        parsed == ParseSuffix(candidate)
        pattern == parsed.ModelName
        suffix == IF parsed.HasSuffix THEN parsed.RawSuffix ELSE <<>>
        found == firstServed(pattern, 1)
    IN IF candidate = <<>> THEN <<>>
       ELSE IF ~Contains(pattern, <<"*">>)
            THEN IF Len(GetProviderName(pattern)) > 0
                 THEN IF suffix # <<>> THEN Sprintf(pattern, suffix) ELSE pattern
                 ELSE <<>>
       ELSE IF found = <<>> THEN <<>>
       ELSE IF suffix # <<>> THEN Sprintf(found, suffix) ELSE found

(***************************************************************************)
(* The callers of the router's functions, and the inputs they pass.        *)
(***************************************************************************)
\* Every string over alphabet of length 0..n.
Words(alphabet, n) == UNION {[1..k -> alphabet] : k \in 0..n}

P_gpt5 == <<"*","g","p","t","-","5","*">>
T_gpt5codex == <<"o","p","e","n","a","i","-","g","p","t","-","5","-","c","o","d","e","x">>
P_claude == <<"c","l","a","u","d","e","-","*">>
T_claude == <<"c","l","a","u","d","e">>
T_claudeDash == <<"c","l","a","u","d","e","-">>
P_abc == <<"a","*","b","*","c">>
T_axxbyyc == <<"a","x","x","b","y","y","c">>
P_ab == <<"a","*","b">>
T_a == <<"a">>

\* The patterns and texts handed to matchWildcard.
WildcardPatterns == {P_gpt5, P_claude, P_abc, P_ab} \cup Words({"a", "B", "*"}, MaxWordLen)
WildcardTexts == {T_gpt5codex, T_claude, T_claudeDash, T_axxbyyc} \cup Words({"a", "b"}, MaxWordLen)

P_gptxStar == <<"g","p","t","-","x","*">>
P_starMINI == <<"*","M","I","N","I">>
P_starOld == <<"*","o","l","d">>
P_star == <<"*">>
P_noneStar == <<"z","z","*">>
P_modelQ == <<"m","o","d","e","l","-","*">>

\* The candidate patterns handed to ResolveFuzzyCandidate, without suffix.
ResolvePatterns ==
    {M_modelA, M_modelB, M_gptxOld, N_gptx, <<>>,
     P_gptxStar, P_starMINI, P_starOld, P_star, P_noneStar, P_modelQ}

S_high == <<"h","i","g","h">>
S_spaced == <<" ","x"," ">>
S_star == <<"*">>

\* The suffix written behind a pattern: <<>> for none, <<s>> for "(s)".
Suffixes == {<<>>, <<<<>>>>, <<S_high>>, <<S_spaced>>, <<S_star>>}

\* The candidate string for a pattern with an optional suffix and padding.
Candidate(pattern, suffix, padded) ==
    LET body == IF suffix = <<>> THEN pattern ELSE Sprintf(pattern, suffix[1])
    IN IF padded THEN <<" ">> \o body \o <<" ">> ELSE body

\* No function has been called yet. Each behaviour of the function
\* specification is one call: the functions are pure, so a call's result
\* does not depend on the calls before it.
NoFCall == [fn |-> "none"]

DoMatchWildcard ==
    /\ fcall = NoFCall
    /\ \E pattern \in WildcardPatterns, text \in WildcardTexts :
          fcall' = [fn |-> "matchWildcard", pattern |-> pattern, text |-> text,
                    out |-> matchWildcard(pattern, text)]
    /\ UNCHANGED <<quotaVars, routerVars, quotaCacheVars, lockVars>>

DoResolveFuzzyCandidate ==
    /\ fcall = NoFCall
    /\ \E pattern \in ResolvePatterns, suffix \in Suffixes, padded \in BOOLEAN :
          fcall' = [fn |-> "ResolveFuzzyCandidate", pattern |-> pattern,
                    suffix |-> suffix,
                    candidate |-> Candidate(pattern, suffix, padded),
                    out |-> ResolveFuzzyCandidate(Candidate(pattern, suffix, padded))]
    /\ UNCHANGED <<quotaVars, routerVars, quotaCacheVars, lockVars>>

(***************************************************************************)
(* Inputs of extractBaseModelName: names built from hyphen-joined segments. *)
(***************************************************************************)
G_gpt == <<"g","p","t">>
G_2024 == <<"2","0","2","4">>
G_09 == <<"0","9">>
G_12345 == <<"1","2","3","4","5">>
G_20251124 == <<"2","0","2","5","1","1","2","4">>
G_Latest == <<"L","a","t","e","s","t">>
G_V1 == <<"V","1">>
G_v == <<"v">>

\* The segments names are built from; <<>> gives a leading, doubled or
\* trailing hyphen.
SegmentPool == {G_gpt, G_2024, G_09, G_12345, G_20251124, G_Latest, G_V1, G_v, <<>>}

SegmentNames ==
    {Join(parts, "-") : parts \in UNION {[1..k -> SegmentPool] : k \in 1..MaxSegments}}

\* "claude-sonnet-20251124"
N_claudeSonnetDated ==
    <<"c","l","a","u","d","e","-","s","o","n","n","e","t","-",
      "2","0","2","5","1","1","2","4">>
N_claudeSonnet == <<"c","l","a","u","d","e","-","s","o","n","n","e","t">>
\* "gpt-4-turbo-2024-04-09"
N_gpt4turboDated ==
    <<"g","p","t","-","4","-","t","u","r","b","o","-",
      "2","0","2","4","-","0","4","-","0","9">>
N_gpt4turbo == <<"g","p","t","-","4","-","t","u","r","b","o">>
N_plainName == <<"p","l","a","i","n","-","n","a","m","e">>
N_v1 == <<"v","1">>
\* " gpt-2024 ": surrounding white space
N_gptDatedPadded == <<" ">> \o G_gpt \o <<"-">> \o G_2024 \o <<" ">>
\* "gpt- 2024": white space inside a segment
N_gptSpaceDated == G_gpt \o <<"-", " ">> \o G_2024

ExtractNames ==
    SegmentNames \cup {N_claudeSonnetDated, N_gpt4turboDated, N_plainName, N_v1,
                       N_gptDatedPadded, N_gptSpaceDated, <<" ">>}

DoExtractBaseModelName ==
    /\ fcall = NoFCall
    /\ \E name \in ExtractNames :
          fcall' = [fn |-> "extractBaseModelName", name |-> name,
                    out |-> extractBaseModelName(name)]
    /\ UNCHANGED <<quotaVars, routerVars, quotaCacheVars, lockVars>>

(***************************************************************************)
(* Inputs of sortCandidatesByProviderPriority and autoSearchModels.         *)
(***************************************************************************)
\* candidateInfo values: a model identifier and the providers that serve it.
I_onP1 == [modelID |-> <<"m","1">>, providers |-> <<"p1">>]
I_alsoOnP1 == [modelID |-> <<"m","2">>, providers |-> <<"p1">>]
I_onP2 == [modelID |-> <<"m","3">>, providers |-> <<"p2">>]
I_onP3P2 == [modelID |-> <<"m","4">>, providers |-> <<"p3", "p2">>]
I_onP4 == [modelID |-> <<"m","5">>, providers |-> <<"p4">>]
I_onP5 == [modelID |-> <<"m","6">>, providers |-> <<"p5">>]

CandidatePool == {I_onP1, I_alsoOnP1, I_onP2, I_onP3P2, I_onP4, I_onP5}

\* The candidatesInfo slices autoSearchModels hands over: up to MaxCandidates
\* candidates, no identifier twice (the seen map of lines 176-190).
CandidateLists ==
    {s \in UNION {[1..k -> CandidatePool] : k \in 0..MaxCandidates} :
        \A i, j \in 1..Len(s) : s[i] = s[j] => i = j}

\* Base names of the families "gpt" and "claude" and of no family.
B_gptx == <<"G","P","T","-","x">>
B_sonnet == <<"s","o","n","n","e","t">>
B_model == <<"m","o","d","e","l">>
BaseNames == {B_gptx, B_sonnet, B_model}

\* "GPT-X-2024", "model", "zzz", "-2024"
N_GPTXdated == <<"G","P","T","-","X","-","2","0","2","4">>
N_model == <<"m","o","d","e","l">>
N_zzz == <<"z","z","z">>
N_dashDated == <<"-","2","0","2","4">>
SearchNames == {N_gptx, N_gptxPadded, N_GPTXdated, N_model, N_zzz, N_dashDated,
                N_useFastTier, N_empty, <<" ">>, <<"-">>, <<"x">>}

DoSortCandidates ==
    /\ fcall = NoFCall
    /\ \E candidates \in CandidateLists, baseName \in BaseNames :
          fcall' = [fn |-> "sortCandidatesByProviderPriority",
                    candidates |-> candidates, baseName |-> baseName, cfg |-> cfg,
                    out |-> sortCandidatesByProviderPriority(candidates, baseName)]
    /\ UNCHANGED <<quotaVars, routerVars, quotaCacheVars, lockVars>>

DoAutoSearchModels ==
    /\ fcall = NoFCall
    /\ \E modelName \in SearchNames :
          fcall' = [fn |-> "autoSearchModels", modelName |-> modelName, cfg |-> cfg,
                    out |-> autoSearchModels(modelName)]
    /\ UNCHANGED <<quotaVars, routerVars, quotaCacheVars, lockVars>>

(***************************************************************************)
(* Quota cache: QuotaCache. Durations and times are in minutes.            *)
(***************************************************************************)
\* The TTL NewQuotaCache falls back to: 5 * time.Minute
DefaultTTL == 5

\* quotaCacheKey(provider, authID, model)
quotaCacheKey(provider, authID, model) ==
    provider \o <<":">> \o authID \o <<":">> \o model

\* NewQuotaCache(ttl)
NewQuotaCache(ttl) ==
    [entries |-> EmptyMap, ttl |-> IF ttl <= 0 THEN DefaultTTL ELSE ttl]

\* QuotaInfo{}
ZeroQuotaInfo ==
    [Total |-> 0, Remaining |-> 0, ResetAt |-> ZeroTime, Source |-> "",
     FetchedAt |-> ZeroTime]

\* delete(m, k)
MapDelete(m, k) == [x \in (DOMAIN m) \ {k} |-> m[x]]

\* Variant: an entry is expired from the moment it reaches expiresAt.
QuotaCacheGet_expiresAtDeadline(c, provider, authID, model, now) ==
    LET key == quotaCacheKey(provider, authID, model)
    IN IF c = <<>> THEN <<ZeroQuotaInfo, FALSE>>
       ELSE IF key \notin DOMAIN c[1].entries THEN <<ZeroQuotaInfo, FALSE>>
       ELSE IF now >= c[1].entries[key].expiresAt THEN <<ZeroQuotaInfo, FALSE>>
       ELSE <<c[1].entries[key].info, TRUE>>

\* (c *QuotaCache) Get(provider, authID, model) at time now: <<info, ok>>
QuotaCacheGet(c, provider, authID, model, now) ==
    LET key == quotaCacheKey(provider, authID, model)
    IN IF c = <<>> THEN <<ZeroQuotaInfo, FALSE>>
       ELSE IF key \notin DOMAIN c[1].entries THEN <<ZeroQuotaInfo, FALSE>>
       ELSE IF After(now, c[1].entries[key].expiresAt) THEN <<ZeroQuotaInfo, FALSE>>
       ELSE <<c[1].entries[key].info, TRUE>>

\* (c *QuotaCache) Set(provider, authID, model, info) at time now: the cache
\* after the call
QuotaCacheSet(c, provider, authID, model, info, now) ==
    LET key == quotaCacheKey(provider, authID, model)
    IN IF c = <<>> THEN c
       ELSE <<[c[1] EXCEPT !.entries =
                  MapPut(@, key, [info |-> info, expiresAt |-> now + c[1].ttl])]>>

\* (c *QuotaCache) Invalidate(provider, authID, model)
QuotaCacheInvalidate(c, provider, authID, model) ==
    LET key == quotaCacheKey(provider, authID, model)
    IN IF c = <<>> THEN c
       ELSE <<[c[1] EXCEPT !.entries = MapDelete(@, key)]>>

\* Variant: the sweep also removes the entries that expire right now.
QuotaCacheCleanup_sweepAtDeadline(c, now) ==
    IF c = <<>> THEN c
    ELSE <<[c[1] EXCEPT !.entries =
               [k \in {x \in DOMAIN @ : ~(now >= @[x].expiresAt)} |-> @[k]]]>>

\* (c *QuotaCache) Cleanup() at time now
QuotaCacheCleanup(c, now) ==
    IF c = <<>> THEN c
    ELSE <<[c[1] EXCEPT !.entries =
               [k \in {x \in DOMAIN @ : ~After(now, @[x].expiresAt)} |-> @[k]]]>>

(***************************************************************************)
(* The callers of the quota cache.                                         *)
(***************************************************************************)
\* The TTLs a QuotaCache is constructed with.
ConfiguredTTLs == {-1, 0, 2}

A_ab == <<"a", ":", "b">>
A_a == <<"a">>
A_bc == <<"b", ":", "c">>
A_c == <<"c">>
A_m == <<"m">>

\* The (provider, authID, model) triples the callers use.
Triples == {<<A_ab, A_c, A_m>>, <<A_a, A_bc, A_m>>, <<A_a, A_c, A_m>>}

\* The QuotaInfo values the callers store.
CachedInfos ==
    {[Total |-> 2, Remaining |-> r, ResetAt |-> ZeroTime, Source |-> "api",
      FetchedAt |-> ZeroTime] : r \in {0, 1}}

DoNewQuotaCache ==
    /\ qcache = <<>>
    /\ \E ttl \in ConfiguredTTLs :
          /\ qcache' = <<NewQuotaCache(ttl)>>
          /\ qcall' = [op |-> "NewQuotaCache", ttl |-> ttl]
    /\ UNCHANGED <<lastSet, quotaVars, routerVars, funcVars, lockVars>>

DoQuotaCacheGet ==
    /\ \E t \in Triples :
          qcall' = [op |-> "Get", triple |-> t,
                    result |-> QuotaCacheGet(qcache, t[1], t[2], t[3], clock)]
    /\ UNCHANGED <<qcache, lastSet, quotaVars, routerVars, funcVars, lockVars>>

DoQuotaCacheSet ==
    /\ \E t \in Triples, info \in CachedInfos :
          /\ qcache' = QuotaCacheSet(qcache, t[1], t[2], t[3], info, clock)
          /\ qcall' = [op |-> "Set", triple |-> t, info |-> info]
          /\ lastSet' = IF qcache = <<>> THEN lastSet
                        ELSE MapPut(lastSet, quotaCacheKey(t[1], t[2], t[3]),
                                    [info |-> info, at |-> clock])
    /\ UNCHANGED <<quotaVars, routerVars, funcVars, lockVars>>

DoQuotaCacheInvalidate ==
    /\ \E t \in Triples :
          /\ qcache' = QuotaCacheInvalidate(qcache, t[1], t[2], t[3])
          /\ qcall' = [op |-> "Invalidate", triple |-> t]
          /\ lastSet' = MapDelete(lastSet, quotaCacheKey(t[1], t[2], t[3]))
    /\ UNCHANGED <<quotaVars, routerVars, funcVars, lockVars>>

DoQuotaCacheCleanup ==
    /\ qcache' = QuotaCacheCleanup(qcache, clock)
    /\ qcall' = [op |-> "Cleanup"]
    /\ UNCHANGED <<lastSet, quotaVars, routerVars, funcVars, lockVars>>

\* Time passes between the calls on the cache.
Elapse ==
    /\ clock < MaxCacheTime
    /\ clock' = clock + 1
    /\ qcall' = [op |-> "Elapse"]
    /\ UNCHANGED <<q, call, cooled, qcache, lastSet, routerVars, funcVars, lockVars>>

(***************************************************************************)
(* Request bodies: internal/thinking/strip.go. A body is the empty byte     *)
(* string, bytes that are not JSON, or a JSON value; a JSON value is tagged *)
(* with its type, an object holds a function from keys to values, an array  *)
(* a sequence of values. A path is the sequence of its dot-separated parts. *)
(***************************************************************************)
JString(s) == [t |-> "string", v |-> s]
\* a number with its text
JNumber(raw) == [t |-> "number", v |-> raw]
JTrue == [t |-> "true"]
JFalse == [t |-> "false"]
JObject(fields) == [t |-> "object", v |-> fields]
JArray(elems) == [t |-> "array", v |-> elems]

EmptyBody == [t |-> "empty"]
InvalidBody == [t |-> "invalid", v |-> "not json"]

\* gjson.ValidBytes(body)
ValidBytes(body) == body.t \notin {"empty", "invalid"}

\* itoa(i)
DigitChars == <<"0", "1", "2", "3", "4", "5", "6", "7", "8", "9">>
RECURSIVE digitsOf(_)
digitsOf(i) == IF i = 0 THEN "" ELSE digitsOf(i \div 10) \o DigitChars[(i % 10) + 1]
itoa(i) ==
    IF i = 0 THEN "0"
    ELSE IF i < 0 THEN "-" \o digitsOf(0 - i)
    ELSE digitsOf(i)

\* The 0-based positions of an array of n elements that a path part names.
ArrayIndex(part, n) == {i \in 0..(n - 1) : itoa(i) = part}

\* gjson.Result of a path that is not there
Missing == [t |-> "missing"]

\* gjson: Result.Get(path), gjson.GetBytes(body, path)
RECURSIVE ResultGet(_, _)
ResultGet(doc, path) ==
    IF path = <<>> THEN doc
    ELSE IF doc.t = "object"
         THEN IF Head(path) \in DOMAIN doc.v
              THEN ResultGet(doc.v[Head(path)], Tail(path))
              ELSE Missing
    ELSE IF doc.t = "array" /\ ArrayIndex(Head(path), Len(doc.v)) # {}
         THEN ResultGet(doc.v[(CHOOSE i \in ArrayIndex(Head(path), Len(doc.v)) : TRUE) + 1],
                        Tail(path))
    ELSE Missing

\* gjson: Result.Exists(), Result.IsArray(), Result.String()
Exists(result) == result.t # "missing"
IsArray(result) == result.t = "array"
ResultString(result) ==
    CASE result.t = "string" -> result.v
      [] result.t = "number" -> result.v
      [] result.t = "true" -> "true"
      [] result.t = "false" -> "false"
      [] result.t = "missing" -> ""

\* The sequence s without its element at position i.
RemoveAt(s, i) == SubSeq(s, 1, i - 1) \o SubSeq(s, i + 1, Len(s))

\* sjson.DeleteBytes(body, path): the body without the value at the path, the
\* body itself when the path is not there
RECURSIVE DeleteBytes(_, _)
DeleteBytes(doc, path) ==
    IF path = <<>> THEN doc
    ELSE IF doc.t = "object" /\ Head(path) \in DOMAIN doc.v
         THEN IF Len(path) = 1
              THEN JObject(MapDelete(doc.v, Head(path)))
              ELSE JObject([doc.v EXCEPT ![Head(path)] = DeleteBytes(@, Tail(path))])
    ELSE IF doc.t = "array" /\ ArrayIndex(Head(path), Len(doc.v)) # {}
         THEN LET i == (CHOOSE k \in ArrayIndex(Head(path), Len(doc.v)) : TRUE) + 1
              IN IF Len(path) = 1
                 THEN JArray(RemoveAt(doc.v, i))
                 ELSE JArray([doc.v EXCEPT ![i] = DeleteBytes(@, Tail(path))])
    ELSE doc

\* sjson.SetBytes(body, path, value) for a path whose parent is there
RECURSIVE SetBytes(_, _, _)
SetBytes(doc, path, value) ==
    IF path = <<>> THEN value
    ELSE IF doc.t = "object"
         THEN IF Head(path) \in DOMAIN doc.v
              THEN JObject([doc.v EXCEPT ![Head(path)] = SetBytes(@, Tail(path), value)])
              ELSE JObject(MapPut(doc.v, Head(path),
                                  SetBytes(JObject(EmptyMap), Tail(path), value)))
    ELSE IF doc.t = "array" /\ ArrayIndex(Head(path), Len(doc.v)) # {}
         THEN LET i == (CHOOSE k \in ArrayIndex(Head(path), Len(doc.v)) : TRUE) + 1
              IN JArray([doc.v EXCEPT ![i] = SetBytes(@, Tail(path), value)])
    ELSE doc

\* The provider names the switch of StripThinkingConfig knows.
KnownProviders ==
    {"claude", "gemini", "gemini-cli", "antigravity", "openai", "codex", "iflow"}

\* The paths StripThinkingConfig deletes for a provider, in order.
stripPaths(provider) ==
    CASE provider = "claude" -> << <<"thinking">> >>
      [] provider = "gemini" -> << <<"generationConfig", "thinkingConfig">> >>
      [] provider \in {"gemini-cli", "antigravity"} ->
            << <<"request", "generationConfig", "thinkingConfig">> >>
      [] provider = "openai" -> << <<"reasoning_effort">> >>
      [] provider = "codex" -> << <<"reasoning", "effort">> >>
      [] provider = "iflow" ->
            << <<"chat_template_kwargs", "enable_thinking">>,
               <<"chat_template_kwargs", "clear_thinking">>,
               <<"reasoning_split">>,
               <<"reasoning_effort">> >>
      [] OTHER -> <<>>

\* The loop of StripThinkingConfig over paths[i..].
RECURSIVE deletePaths(_, _, _)
deletePaths(result, paths, i) ==
    IF i > Len(paths) THEN result
    ELSE deletePaths(DeleteBytes(result, paths[i]), paths, i + 1)

\* Variant: the whole top-level field a path starts in is deleted.
StripThinkingConfig_topLevel(body, provider) ==
    IF body.t = "empty" \/ ~ValidBytes(body) THEN body
    ELSE IF provider \notin KnownProviders THEN body
    ELSE LET paths == stripPaths(provider)
         IN deletePaths(body, [i \in 1..Len(paths) |-> <<paths[i][1]>>], 1)

\* StripThinkingConfig(body, provider)
StripThinkingConfig(body, provider) ==
    IF body.t = "empty" \/ ~ValidBytes(body) THEN body
    ELSE IF provider \notin KnownProviders THEN body
    ELSE deletePaths(body, stripPaths(provider), 1)

\* The body of the loop over a message's content blocks (lines 100-128);
\* st holds the body rewritten so far and the modified flag.
downgradeBlock(st, msgIdx, contentIdx, content) ==
    LET path == <<"messages", itoa(msgIdx), "content", itoa(contentIdx)>>
        contentType == ResultString(ResultGet(content, <<"type">>))
        ownText == ResultString(ResultGet(content, <<"thinking">>))
        thinkingText == IF ownText = ""
                        THEN ResultString(ResultGet(content, <<"text">>))
                        ELSE ownText
        converts == contentType = "thinking" /\ thinkingText # ""
        typed == SetBytes(st.body, path \o <<"type">>, JString("text"))
        texted == SetBytes(typed, path \o <<"text">>, JString(thinkingText))
        unthought == DeleteBytes(texted, path \o <<"thinking">>)
        converted == IF converts
                     THEN DeleteBytes(unthought, path \o <<"signature">>)
                     ELSE st.body
        signed == Exists(ResultGet(content, <<"signature">>))
    IN [body |-> IF signed THEN DeleteBytes(converted, path \o <<"signature">>)
                 ELSE converted,
        modified |-> st.modified \/ converts \/ signed]

\* The loop over contents[contentIdx..] of one message.
RECURSIVE downgradeContents(_, _, _, _)
downgradeContents(st, msgIdx, contents, contentIdx) ==
    IF contentIdx >= Len(contents) THEN st
    ELSE downgradeContents(downgradeBlock(st, msgIdx, contentIdx, contents[contentIdx + 1]),
                           msgIdx, contents, contentIdx + 1)

\* The loop over messages[msgIdx..].
RECURSIVE downgradeMessages(_, _, _)
downgradeMessages(st, messages, msgIdx) ==
    IF msgIdx >= Len(messages) THEN st
    ELSE LET contentResult == ResultGet(messages[msgIdx + 1], <<"content">>)
         IN IF ~Exists(contentResult) \/ ~IsArray(contentResult)
            THEN downgradeMessages(st, messages, msgIdx + 1)
            ELSE downgradeMessages(downgradeContents(st, msgIdx, contentResult.v, 0),
                                   messages, msgIdx + 1)

\* DowngradeThinkingToText(body, provider)
DowngradeThinkingToText(bodyArg, provider) ==
    IF bodyArg.t = "empty" \/ ~ValidBytes(bodyArg) THEN bodyArg
    ELSE LET body == StripThinkingConfig(bodyArg, provider)
             messagesResult == ResultGet(body, <<"messages">>)
         IN IF ~Exists(messagesResult) \/ ~IsArray(messagesResult) THEN body
            ELSE LET st == downgradeMessages([body |-> body, modified |-> FALSE],
                                             messagesResult.v, 0)
                 IN IF st.modified THEN DeleteBytes(st.body, <<"thinking">>)
                    ELSE st.body

(***************************************************************************)
(* Request bodies handed to the two functions.                             *)
(***************************************************************************)
\* Content blocks.
Block_thinking ==
    JObject([type |-> JString("thinking"), thinking |-> JString("Let me analyze"),
             signature |-> JString("abc123")])
Block_thinkingUnsigned ==
    JObject([type |-> JString("thinking"), thinking |-> JString("Second thought")])
Block_thinkingEmpty ==
    JObject([type |-> JString("thinking"), thinking |-> JString(""),
             signature |-> JString("def456")])
Block_thinkingInText ==
    JObject([type |-> JString("thinking"), text |-> JString("Kept in text")])
Block_text == JObject([type |-> JString("text"), text |-> JString("Answer")])
Block_textSigned ==
    JObject([type |-> JString("text"), text |-> JString("Hello"),
             signature |-> JString("xyz789")])
Block_toolUse == JObject([type |-> JString("tool_use"), id |-> JString("t1")])

BlockPool == {Block_thinking, Block_thinkingUnsigned, Block_thinkingEmpty, Block_thinkingInText,
              Block_text, Block_textSigned, Block_toolUse}

\* The content arrays: up to MaxBlocks blocks.
ContentArrays == UNION {[1..k -> BlockPool] : k \in 0..MaxBlocks}

\* A user message with string content, then an assistant message with blocks.
MessagesWith(blocks) ==
    JArray(<<JObject([role |-> JString("user"), content |-> JString("Hello")]),
             JObject([role |-> JString("assistant"), content |-> JArray(blocks)])>>)

\* The "messages" field of a body: <<>> for none.
MessagesFields ==
    {<<>>, <<JString("none")>>} \cup {<<MessagesWith(b)>> : b \in ContentArrays}

\* The thinking configuration each provider format carries.
F_thinking ==
    JObject([type |-> JString("enabled"), budget_tokens |-> JNumber("10000")])
F_generationConfig ==
    JObject([thinkingConfig |-> JObject([thinkingBudget |-> JNumber("1024")]),
             temperature |-> JNumber("0.5")])
F_request ==
    JObject([generationConfig |-> F_generationConfig, model |-> JString("inner")])
F_reasoning == JObject([effort |-> JString("high"), summary |-> JString("auto")])
F_kwargs ==
    JObject([enable_thinking |-> JTrue, clear_thinking |-> JFalse,
             keep |-> JString("kept")])

\* The top-level fields of a body besides "messages".
ConfigFields ==
    {[model |-> JString("m")],
     [model |-> JString("m"), thinking |-> F_thinking],
     [model |-> JString("m"), generationConfig |-> F_generationConfig],
     [model |-> JString("m"), request |-> F_request],
     [model |-> JString("m"), reasoning_effort |-> JString("high")],
     [model |-> JString("m"), reasoning |-> F_reasoning],
     [model |-> JString("m"), chat_template_kwargs |-> F_kwargs,
      reasoning_split |-> JTrue, reasoning_effort |-> JString("low")],
     [model |-> JString("m"), thinking |-> F_thinking,
      generationConfig |-> F_generationConfig, request |-> F_request,
      reasoning_effort |-> JString("high"), reasoning |-> F_reasoning,
      chat_template_kwargs |-> F_kwargs, reasoning_split |-> JFalse,
      generationConfig_thinkingConfig |-> JString("flat")]}

Bodies ==
    {EmptyBody, InvalidBody}
        \cup {JObject(IF m = <<>> THEN c ELSE MapPut(c, "messages", m[1])) :
                 c \in ConfigFields, m \in MessagesFields}

Providers == KnownProviders \cup {"unknown", ""}

DoStripThinkingConfig ==
    /\ fcall = NoFCall
    /\ \E body \in Bodies, provider \in Providers :
          fcall' = [fn |-> "StripThinkingConfig", body |-> body, provider |-> provider,
                    out |-> StripThinkingConfig(body, provider)]
    /\ UNCHANGED <<quotaVars, routerVars, quotaCacheVars, lockVars>>

DoDowngradeThinkingToText ==
    /\ fcall = NoFCall
    /\ \E body \in Bodies, provider \in Providers :
          fcall' = [fn |-> "DowngradeThinkingToText", body |-> body,
                    provider |-> provider,
                    out |-> DowngradeThinkingToText(body, provider)]
    /\ UNCHANGED <<quotaVars, routerVars, quotaCacheVars, lockVars>>

(***************************************************************************)
(* Goroutines and locks. A sync.RWMutex is the goroutine that called Lock   *)
(* (it holds the lock once the readers have left, and keeps new readers     *)
(* out from the moment it calls) and the set of goroutines that hold the    *)
(* read lock.                                                              *)
(***************************************************************************)
NewRWMutex == [writer |-> <<>>, readers |-> {}]

\* RLock returns only while no goroutine holds or awaits the write lock.
CanRLock(m) == m.writer = <<>>
RLock(m, p) == [m EXCEPT !.readers = @ \cup {p}]
RUnlock(m, p) == [m EXCEPT !.readers = @ \ {p}]

\* Lock: the caller first excludes the other writers and new readers, and
\* returns when the readers that were in have left.
CanLock(m) == m.writer = <<>>
Lock(m, p) == [m EXCEPT !.writer = <<p>>]
Locked(m, p) == m.writer = <<p>> /\ m.readers = {}
Unlock(m, p) == [m EXCEPT !.writer = <<>>]

\* The goroutines: two that reconfigure the router and two that route
\* requests; two that use the quota cache and the one of its cleanup timer;
\* one that reports successes and one that asks whether routing is enabled;
\* three that ask the identity service for fingerprints.
Updaters == {"u1", "u2"}
Readers == {"r1", "r2"}
Workers == {"w1", "w2"}
Sweepers == {"s1"}
Reporters == {"t1"}
Askers == {"e1"}
Clients == {"c1", "c2", "c3"}
Goroutines ==
    Updaters \cup Readers \cup Workers \cup Sweepers \cup Reporters \cup Askers \cup Clients

NoFrame == [op |-> "none"]

\* pc' and frame' for goroutine p.
Goto(p, label) == pc' = [pc EXCEPT ![p] = label]
Local(p, f) == frame' = [frame EXCEPT ![p] = f]

(***************************************************************************)
(* ModelRouter under concurrent callers, statement by statement.           *)
(***************************************************************************)
\* The configurations the updaters install and the names the readers ask for.
RaceConfigs == {<<C_fuzzy>>, <<C_exact>>, <<C_off>>}
RaceNames == {N_gptx, N_useFastTier, N_empty}

\* What the statements of UpdateConfig and GetCandidates leave alone.
routerRaceRest ==
    <<store, ret, recorded, nReports, quotaVars, quotaCacheVars, funcVars, cmu, heap,
      kmu, imu, idcache, fpheap>>

\* UpdateConfig(cfg, authDir) is called.
UC_Call(p) ==
    /\ pc[p] = "idle"
    /\ \E c \in RaceConfigs, authDir \in AuthDirs :
          Local(p, [op |-> "UpdateConfig", cfg |-> c, authDir |-> authDir, i |-> 1])
    /\ Goto(p, "UpdateConfig:Lock")
    /\ UNCHANGED <<cfg, routes, fuzzy, cache, rmu, published, routerRaceRest>>

\* Variant: UpdateConfig goes on without taking the lock.
UC_Lock_skipped(p) ==
    /\ pc[p] = "UpdateConfig:Lock"
    /\ Goto(p, "UpdateConfig:cfg")
    /\ UNCHANGED <<cfg, routes, fuzzy, cache, rmu, frame, published, routerRaceRest>>

\* r.mu.Lock(): the call
UC_Lock(p) ==
    /\ pc[p] = "UpdateConfig:Lock"
    /\ CanLock(rmu)
    /\ rmu' = Lock(rmu, p)
    /\ Goto(p, "UpdateConfig:Locked")
    /\ UNCHANGED <<cfg, routes, fuzzy, cache, frame, published, routerRaceRest>>

\* r.mu.Lock(): the return
UC_Locked(p) ==
    /\ pc[p] = "UpdateConfig:Locked"
    /\ Locked(rmu, p)
    /\ Goto(p, "UpdateConfig:cfg")
    /\ UNCHANGED <<cfg, routes, fuzzy, cache, rmu, frame, published, routerRaceRest>>

\* r.cfg = cfg
UC_SetCfg(p) ==
    /\ pc[p] = "UpdateConfig:cfg"
    /\ cfg' = frame[p].cfg
    /\ Goto(p, "UpdateConfig:routes")
    /\ UNCHANGED <<routes, fuzzy, cache, rmu, frame, published, routerRaceRest>>

\* r.routes = make(map[string]*config.ModelRouteEntry)
UC_MakeRoutes(p) ==
    /\ pc[p] = "UpdateConfig:routes"
    /\ routes' = EmptyMap
    /\ Goto(p, "UpdateConfig:fuzzy")
    /\ UNCHANGED <<cfg, fuzzy, cache, rmu, frame, published, routerRaceRest>>

\* r.fuzzy = make(...); if cfg == nil || !cfg.Enabled { return }
UC_MakeFuzzy(p) ==
    /\ pc[p] = "UpdateConfig:fuzzy"
    /\ fuzzy' = <<>>
    /\ IF frame[p].cfg = <<>> \/ ~frame[p].cfg[1].Enabled
       THEN Goto(p, "UpdateConfig:Unlock")
       ELSE Goto(p, "UpdateConfig:index")
    /\ UNCHANGED <<cfg, routes, cache, rmu, frame, published, routerRaceRest>>

\* One iteration of the loop over cfg.Routes, or its end.
UC_Index(p) ==
    /\ pc[p] = "UpdateConfig:index"
    /\ LET rs == frame[p].cfg[1].Routes
           i == frame[p].i
       IN IF i > Len(rs)
          THEN /\ Goto(p, "UpdateConfig:cache")
               /\ UNCHANGED <<routes, fuzzy, frame>>
          ELSE LET built == buildIndexes(<<rs[i]>>, 1, routes, fuzzy)
               IN /\ routes' = built[1]
                  /\ fuzzy' = built[2]
                  /\ Local(p, [frame[p] EXCEPT !.i = i + 1])
                  /\ UNCHANGED pc
    /\ UNCHANGED <<cfg, cache, rmu, published, routerRaceRest>>

\* r.cache = NewRouteCache(...) or r.cache.UpdatePath(...)
UC_Cache(p) ==
    /\ pc[p] = "UpdateConfig:cache"
    /\ LET c == frame[p].cfg[1]
           cacheFile == IF c.CacheFile = <<>> THEN F_default ELSE c.CacheFile
       IN cache' = <<Location(frame[p].authDir, cacheFile)>>
    /\ Goto(p, "UpdateConfig:Unlock")
    /\ UNCHANGED <<cfg, routes, fuzzy, rmu, frame, published, routerRaceRest>>

\* defer r.mu.Unlock(), and the return
UC_Unlock(p) ==
    /\ pc[p] = "UpdateConfig:Unlock"
    /\ rmu' = Unlock(rmu, p)
    /\ published' = frame[p].cfg
    /\ Goto(p, "idle")
    /\ UNCHANGED <<cfg, routes, fuzzy, cache, frame, routerRaceRest>>

\* GetCandidates(modelName) is called.
GC_Call(p) ==
    /\ pc[p] = "idle"
    /\ \E modelName \in RaceNames :
          Local(p, [op |-> "GetCandidates", modelName |-> modelName,
                    seenRoutes |-> <<>>, seenFuzzy |-> <<>>,
                    result |-> <<>>, returned |-> FALSE])
    /\ Goto(p, "IsEnabled:RLock")
    /\ UNCHANGED <<cfg, routes, fuzzy, cache, rmu, published, routerRaceRest>>

\* IsEnabled(): r.mu.RLock()
GC_IsEnabledRLock(p) ==
    /\ pc[p] = "IsEnabled:RLock"
    /\ CanRLock(rmu)
    /\ rmu' = RLock(rmu, p)
    /\ Goto(p, "IsEnabled:return")
    /\ UNCHANGED <<cfg, routes, fuzzy, cache, frame, published, routerRaceRest>>

\* Variant: IsEnabled returns true while still holding its read lock.
GC_IsEnabled_keepsLock(p) ==
    /\ pc[p] = "IsEnabled:return"
    /\ IF IsEnabled
       THEN Goto(p, "GetCandidates:RLock") /\ UNCHANGED <<frame, rmu>>
       ELSE /\ Goto(p, "idle")
            /\ rmu' = RUnlock(rmu, p)
            /\ Local(p, [frame[p] EXCEPT !.result = <<>>, !.returned = TRUE])
    /\ UNCHANGED <<cfg, routes, fuzzy, cache, published, routerRaceRest>>

\* IsEnabled(): return r.cfg != nil && r.cfg.Enabled, with the deferred
\* RUnlock; if !r.IsEnabled() { return nil }
GC_IsEnabled(p) ==
    /\ pc[p] = "IsEnabled:return"
    /\ rmu' = RUnlock(rmu, p)
    /\ IF IsEnabled
       THEN Goto(p, "GetCandidates:RLock") /\ UNCHANGED frame
       ELSE /\ Goto(p, "idle")
            /\ Local(p, [frame[p] EXCEPT !.result = <<>>, !.returned = TRUE])
    /\ UNCHANGED <<cfg, routes, fuzzy, cache, published, routerRaceRest>>

\* r.mu.RLock()
GC_RLock(p) ==
    /\ pc[p] = "GetCandidates:RLock"
    /\ CanRLock(rmu)
    /\ rmu' = RLock(rmu, p)
    /\ Goto(p, "GetCandidates:routes")
    /\ UNCHANGED <<cfg, routes, fuzzy, cache, frame, published, routerRaceRest>>

\* findRouteEntry: the lookup in r.routes (none for an empty name)
GC_Routes(p) ==
    /\ pc[p] = "GetCandidates:routes"
    /\ LET modelName == TrimSpace(frame[p].modelName)
       IN IF modelName = <<>>
          THEN Goto(p, "GetCandidates:return") /\ UNCHANGED frame
          ELSE /\ Local(p, [frame[p] EXCEPT !.seenRoutes = <<routes>>])
               /\ IF ToLower(modelName) \in DOMAIN routes
                  THEN Goto(p, "GetCandidates:return")
                  ELSE Goto(p, "GetCandidates:fuzzy")
    /\ UNCHANGED <<cfg, routes, fuzzy, cache, rmu, published, routerRaceRest>>

\* findRouteEntry: the loop over r.fuzzy
GC_Fuzzy(p) ==
    /\ pc[p] = "GetCandidates:fuzzy"
    /\ Local(p, [frame[p] EXCEPT !.seenFuzzy = <<fuzzy>>])
    /\ Goto(p, "GetCandidates:return")
    /\ UNCHANGED <<cfg, routes, fuzzy, cache, rmu, published, routerRaceRest>>

\* The candidates are put together and returned, with the deferred RUnlock.
GC_Return(p) ==
    /\ pc[p] = "GetCandidates:return"
    /\ rmu' = RUnlock(rmu, p)
    /\ Local(p, [frame[p] EXCEPT !.result = lookupCandidates(frame[p].modelName),
                                 !.returned = TRUE])
    /\ Goto(p, "idle")
    /\ UNCHANGED <<cfg, routes, fuzzy, cache, published, routerRaceRest>>

(***************************************************************************)
(* ModelRouter and its RouteCache, lock by lock: UpdateConfig,             *)
(* GetCandidates, RecordSuccess and IsEnabled with the accesses to the      *)
(* success cache under the cache's own lock.                                *)
(***************************************************************************)
\* The goroutines of this part, and what the reporter reports.
LockUpdaters == {"u1", "u2"}
LockReaders == {"r1"}
LockReports == {<<N_useFastTier, M_modelB>>, <<N_useFastTier, M_gptx0408>>}

\* What the statements of this part leave alone.
routerLockRest ==
    <<ret, recorded, nReports, quotaVars, quotaCacheVars, funcVars, cmu, heap,
      imu, idcache, fpheap>>

\* The statements of GetCandidates behind the lookup in the success cache
\* (lines 107-149), cached being what r.cache.Get returned.
candidatesWith(modelName, cached) ==
    LET entry == findRouteEntry(modelName)
        autoResults == autoSearchModels(modelName)
    IN IF modelName = <<>> THEN <<>>
       ELSE IF cached # <<>>
            THEN IF entry # <<>> THEN <<cached>> \o without(entry[1].Candidates, cached)
                 ELSE IF Len(autoResults) > 0 THEN <<cached>> \o without(autoResults, cached)
                 ELSE <<cached>>
       ELSE IF entry # <<>> THEN entry[1].Candidates
       ELSE IF cfg # <<>> /\ cfg[1].AutoSearch THEN autoResults
       ELSE <<>>

\* r.cache = NewRouteCache(...), or r.cache.UpdatePath(...): the call, which
\* asks for the cache's lock
UL_Cache(p) ==
    /\ pc[p] = "UpdateConfig:cache"
    /\ IF cache = <<>>
       THEN LET c == frame[p].cfg[1]
                cacheFile == IF c.CacheFile = <<>> THEN F_default ELSE c.CacheFile
            IN /\ cache' = <<Location(frame[p].authDir, cacheFile)>>
               /\ Goto(p, "UpdateConfig:Unlock")
               /\ UNCHANGED kmu
       ELSE /\ CanLock(kmu)
            /\ kmu' = Lock(kmu, p)
            /\ Goto(p, "UpdateConfig:cache.UpdatePath")
            /\ UNCHANGED cache
    /\ UNCHANGED <<cfg, routes, fuzzy, store, rmu, frame, published, routerLockRest>>

\* r.cache.UpdatePath(authDir, cacheFile), under the cache's lock
UL_UpdatePath(p) ==
    /\ pc[p] = "UpdateConfig:cache.UpdatePath"
    /\ Locked(kmu, p)
    /\ LET c == frame[p].cfg[1]
           cacheFile == IF c.CacheFile = <<>> THEN F_default ELSE c.CacheFile
       IN cache' = <<Location(frame[p].authDir, cacheFile)>>
    /\ kmu' = Unlock(kmu, p)
    /\ Goto(p, "UpdateConfig:Unlock")
    /\ UNCHANGED <<cfg, routes, fuzzy, store, rmu, frame, published, routerLockRest>>

\* r.mu.RLock() of GetCandidates
GL_RLock(p) ==
    /\ pc[p] = "GetCandidates:RLock"
    /\ CanRLock(rmu)
    /\ rmu' = RLock(rmu, p)
    /\ Local(p, [op |-> "GetCandidates", modelName |-> frame[p].modelName,
                 cached |-> <<>>, result |-> <<>>, returned |-> FALSE])
    /\ Goto(p, "GetCandidates:cache")
    /\ UNCHANGED <<cfg, routes, fuzzy, cache, store, kmu, published, routerLockRest>>

\* if r.cache != nil { r.cache.Get(modelName) ...: the call, which asks for
\* the cache's lock
GL_Cache(p) ==
    /\ pc[p] = "GetCandidates:cache"
    /\ IF TrimSpace(frame[p].modelName) = <<>> \/ cache = <<>>
       THEN Goto(p, "GetCandidates:lookup") /\ UNCHANGED kmu
       ELSE /\ CanRLock(kmu)
            /\ kmu' = RLock(kmu, p)
            /\ Goto(p, "GetCandidates:cache.Get")
    /\ UNCHANGED <<cfg, routes, fuzzy, cache, store, rmu, frame, published, routerLockRest>>

\* cached := r.cache.Get(modelName), under the cache's lock
GL_CacheGet(p) ==
    /\ pc[p] = "GetCandidates:cache.Get"
    /\ Local(p, [frame[p] EXCEPT !.cached = CacheGet(TrimSpace(frame[p].modelName))])
    /\ kmu' = RUnlock(kmu, p)
    /\ Goto(p, "GetCandidates:lookup")
    /\ UNCHANGED <<cfg, routes, fuzzy, cache, store, rmu, published, routerLockRest>>

\* The candidates are put together and returned, with the deferred RUnlock.
GL_Return(p) ==
    /\ pc[p] = "GetCandidates:lookup"
    /\ rmu' = RUnlock(rmu, p)
    /\ Local(p, [frame[p] EXCEPT
                    !.result = candidatesWith(TrimSpace(frame[p].modelName), frame[p].cached),
                    !.returned = TRUE])
    /\ Goto(p, "idle")
    /\ UNCHANGED <<cfg, routes, fuzzy, cache, store, kmu, published, routerLockRest>>

\* RecordSuccess(virtualModel, actualModel) is called.
RS_Call(p) ==
    /\ pc[p] = "idle"
    /\ \E report \in LockReports :
          Local(p, [op |-> "RecordSuccess", virtualModel |-> report[1],
                    actualModel |-> report[2], cache |-> FALSE, wrote |-> FALSE])
    /\ Goto(p, "RecordSuccess:IsEnabled")
    /\ UNCHANGED <<cfg, routes, fuzzy, cache, store, rmu, kmu, published, routerLockRest>>

\* IsEnabled(): r.mu.RLock()
RS_IsEnabledRLock(p) ==
    /\ pc[p] = "RecordSuccess:IsEnabled"
    /\ CanRLock(rmu)
    /\ rmu' = RLock(rmu, p)
    /\ Goto(p, "RecordSuccess:IsEnabled:return")
    /\ UNCHANGED <<cfg, routes, fuzzy, cache, store, kmu, frame, published, routerLockRest>>

\* IsEnabled() returns, with its deferred RUnlock; if !r.IsEnabled() { return }
RS_IsEnabled(p) ==
    /\ pc[p] = "RecordSuccess:IsEnabled:return"
    /\ rmu' = RUnlock(rmu, p)
    /\ IF IsEnabled THEN Goto(p, "RecordSuccess:RLock") ELSE Goto(p, "idle")
    /\ UNCHANGED <<cfg, routes, fuzzy, cache, store, kmu, frame, published, routerLockRest>>

\* r.mu.RLock()
RS_RLock(p) ==
    /\ pc[p] = "RecordSuccess:RLock"
    /\ CanRLock(rmu)
    /\ rmu' = RLock(rmu, p)
    /\ Goto(p, "RecordSuccess:cache")
    /\ UNCHANGED <<cfg, routes, fuzzy, cache, store, kmu, frame, published, routerLockRest>>

\* cache := r.cache; r.mu.RUnlock(); if cache != nil { ... }
RS_Cache(p) ==
    /\ pc[p] = "RecordSuccess:cache"
    /\ rmu' = RUnlock(rmu, p)
    /\ Local(p, [frame[p] EXCEPT !.cache = (cache # <<>>)])
    /\ IF cache # <<>> THEN Goto(p, "RecordSuccess:cache.Set") ELSE Goto(p, "idle")
    /\ UNCHANGED <<cfg, routes, fuzzy, cache, store, kmu, published, routerLockRest>>

\* cache.Set(virtualModel, actualModel): the call, which asks for the
\* cache's lock
RS_SetLock(p) ==
    /\ pc[p] = "RecordSuccess:cache.Set"
    /\ CanLock(kmu)
    /\ kmu' = Lock(kmu, p)
    /\ Goto(p, "RecordSuccess:cache.Set:Locked")
    /\ UNCHANGED <<cfg, routes, fuzzy, cache, store, rmu, frame, published, routerLockRest>>

\* cache.Set(virtualModel, actualModel), under the cache's lock
RS_Set(p) ==
    /\ pc[p] = "RecordSuccess:cache.Set:Locked"
    /\ Locked(kmu, p)
    /\ CacheSet(frame[p].virtualModel, frame[p].actualModel)
    /\ kmu' = Unlock(kmu, p)
    /\ Local(p, [frame[p] EXCEPT !.wrote = TRUE])
    /\ Goto(p, "idle")
    /\ UNCHANGED <<cfg, routes, fuzzy, cache, rmu, published, routerLockRest>>

\* IsEnabled() is called.
IE_Call(p) ==
    /\ pc[p] = "idle"
    /\ Local(p, [op |-> "IsEnabled", result |-> FALSE, returned |-> FALSE])
    /\ Goto(p, "IsEnabled():RLock")
    /\ UNCHANGED <<cfg, routes, fuzzy, cache, store, rmu, kmu, published, routerLockRest>>

\* r.mu.RLock()
IE_RLock(p) ==
    /\ pc[p] = "IsEnabled():RLock"
    /\ CanRLock(rmu)
    /\ rmu' = RLock(rmu, p)
    /\ Goto(p, "IsEnabled():return")
    /\ UNCHANGED <<cfg, routes, fuzzy, cache, store, kmu, frame, published, routerLockRest>>

\* return r.cfg != nil && r.cfg.Enabled, with the deferred RUnlock
IE_Return(p) ==
    /\ pc[p] = "IsEnabled():return"
    /\ rmu' = RUnlock(rmu, p)
    /\ Local(p, [frame[p] EXCEPT !.result = IsEnabled, !.returned = TRUE])
    /\ Goto(p, "idle")
    /\ UNCHANGED <<cfg, routes, fuzzy, cache, store, kmu, published, routerLockRest>>

(***************************************************************************)
(* QuotaCache under concurrent callers, statement by statement. The        *)
(* entries map holds pointers: addresses of the quotaCacheEntry values in   *)
(* heap. lastSet follows the map: the info of the last Set of a key, until  *)
(* Invalidate or Cleanup removes the key.                                  *)
(***************************************************************************)
\* The TTL the shared cache is constructed with, in minutes.
RaceTTL == 1
\* One key: the callers contend for the same entry.
RaceTriples == {<<A_a, A_c, A_m>>}

\* What the statements of the QuotaCache methods leave alone.
cacheRaceRest ==
    <<q, call, cooled, routerVars, qcall, funcVars, rmu, published, kmu, imu, idcache, fpheap>>

\* Time passes while the goroutines run.
CR_Tick ==
    /\ clock < MaxRaceTime
    /\ clock' = clock + 1
    /\ UNCHANGED <<qcache, lastSet, cmu, pc, frame, heap, cacheRaceRest>>

\* Get(provider, authID, model) is called.
QG_Call(p) ==
    /\ pc[p] = "idle"
    /\ \E t \in RaceTriples :
          Local(p, [op |-> "Get", key |-> quotaCacheKey(t[1], t[2], t[3]),
                    entry |-> <<>>, expect |-> <<>>,
                    result |-> <<>>, returned |-> FALSE])
    /\ Goto(p, "Get:RLock")
    /\ UNCHANGED <<clock, qcache, lastSet, cmu, heap, cacheRaceRest>>

\* c.mu.RLock()
QG_RLock(p) ==
    /\ pc[p] = "Get:RLock"
    /\ CanRLock(cmu)
    /\ cmu' = RLock(cmu, p)
    /\ Goto(p, "Get:entries")
    /\ UNCHANGED <<clock, qcache, lastSet, frame, heap, cacheRaceRest>>

\* entry, ok := c.entries[key]
QG_Entries(p) ==
    /\ pc[p] = "Get:entries"
    /\ LET key == frame[p].key
           entries == qcache[1].entries
       IN Local(p, [frame[p] EXCEPT
                       !.entry = IF key \in DOMAIN entries THEN <<entries[key]>> ELSE <<>>,
                       !.expect = IF key \in DOMAIN lastSet THEN <<lastSet[key].info>>
                                  ELSE <<>>])
    /\ Goto(p, "Get:RUnlock")
    /\ UNCHANGED <<clock, qcache, lastSet, cmu, heap, cacheRaceRest>>

\* c.mu.RUnlock()
QG_RUnlock(p) ==
    /\ pc[p] = "Get:RUnlock"
    /\ cmu' = RUnlock(cmu, p)
    /\ Goto(p, "Get:expiresAt")
    /\ UNCHANGED <<clock, qcache, lastSet, frame, heap, cacheRaceRest>>

\* if !ok || entry == nil { miss }; if time.Now().After(entry.expiresAt) { miss }
QG_ExpiresAt(p) ==
    /\ pc[p] = "Get:expiresAt"
    /\ IF frame[p].entry = <<>> \/ After(clock, heap[frame[p].entry[1]].expiresAt)
       THEN /\ Local(p, [frame[p] EXCEPT !.entry = <<>>, !.expect = <<>>,
                                         !.result = <<ZeroQuotaInfo, FALSE>>,
                                         !.returned = TRUE])
            /\ Goto(p, "idle")
       ELSE Goto(p, "Get:info") /\ UNCHANGED frame
    /\ UNCHANGED <<clock, qcache, lastSet, cmu, heap, cacheRaceRest>>

\* return entry.info, true
QG_Info(p) ==
    /\ pc[p] = "Get:info"
    /\ Local(p, [frame[p] EXCEPT !.entry = <<>>,
                                 !.result = <<heap[frame[p].entry[1]].info, TRUE>>,
                                 !.returned = TRUE])
    /\ Goto(p, "idle")
    /\ UNCHANGED <<clock, qcache, lastSet, cmu, heap, cacheRaceRest>>

\* Set(provider, authID, model, info) is called.
QS_Call(p) ==
    /\ pc[p] = "idle"
    /\ Len(heap) + Cardinality({g \in Workers : pc[g] # "idle" /\ frame[g].op = "Set"})
          < MaxSets
    /\ \E t \in RaceTriples, info \in CachedInfos :
          Local(p, [op |-> "Set", key |-> quotaCacheKey(t[1], t[2], t[3]),
                    info |-> info])
    /\ Goto(p, "Lock")
    /\ UNCHANGED <<clock, qcache, lastSet, cmu, heap, cacheRaceRest>>

\* Invalidate(provider, authID, model) is called.
QI_Call(p) ==
    /\ pc[p] = "idle"
    /\ \E t \in RaceTriples :
          Local(p, [op |-> "Invalidate", key |-> quotaCacheKey(t[1], t[2], t[3])])
    /\ Goto(p, "Lock")
    /\ UNCHANGED <<clock, qcache, lastSet, cmu, heap, cacheRaceRest>>

\* Cleanup() is called: now := time.Now()
QC_Call(p) ==
    /\ pc[p] = "idle"
    /\ Local(p, [op |-> "Cleanup", now |-> clock])
    /\ Goto(p, "Lock")
    /\ UNCHANGED <<clock, qcache, lastSet, cmu, heap, cacheRaceRest>>

\* c.mu.Lock(): the call
Q_Lock(p) ==
    /\ pc[p] = "Lock"
    /\ CanLock(cmu)
    /\ cmu' = Lock(cmu, p)
    /\ Goto(p, "Locked")
    /\ UNCHANGED <<clock, qcache, lastSet, frame, heap, cacheRaceRest>>

\* c.mu.Lock(): the return
Q_Locked(p) ==
    /\ pc[p] = "Locked"
    /\ Locked(cmu, p)
    /\ Goto(p, frame[p].op)
    /\ UNCHANGED <<clock, qcache, lastSet, cmu, frame, heap, cacheRaceRest>>

\* Variant: Set writes into the entry the key already has.
QS_Store_inPlace(p) ==
    /\ pc[p] = "Set"
    /\ LET key == frame[p].key
           entry == [info |-> frame[p].info, expiresAt |-> clock + qcache[1].ttl]
       IN /\ IF key \in DOMAIN qcache[1].entries
             THEN /\ heap' = [heap EXCEPT ![qcache[1].entries[key]] = entry]
                  /\ UNCHANGED qcache
             ELSE /\ heap' = Append(heap, entry)
                  /\ qcache' = <<[qcache[1] EXCEPT !.entries = MapPut(@, key, Len(heap) + 1)]>>
          /\ lastSet' = MapPut(lastSet, key, [info |-> frame[p].info, at |-> clock])
    /\ Goto(p, "Unlock")
    /\ UNCHANGED <<clock, cmu, frame, cacheRaceRest>>

\* c.entries[key] = &quotaCacheEntry{info: info, expiresAt: time.Now().Add(c.ttl)}
QS_Store(p) ==
    /\ pc[p] = "Set"
    /\ LET key == frame[p].key
       IN /\ heap' = Append(heap, [info |-> frame[p].info,
                                   expiresAt |-> clock + qcache[1].ttl])
          /\ qcache' = <<[qcache[1] EXCEPT !.entries = MapPut(@, key, Len(heap) + 1)]>>
          /\ lastSet' = MapPut(lastSet, key, [info |-> frame[p].info, at |-> clock])
    /\ Goto(p, "Unlock")
    /\ UNCHANGED <<clock, cmu, frame, cacheRaceRest>>

\* delete(c.entries, key)
QI_Delete(p) ==
    /\ pc[p] = "Invalidate"
    /\ qcache' = <<[qcache[1] EXCEPT !.entries = MapDelete(@, frame[p].key)]>>
    /\ lastSet' = MapDelete(lastSet, frame[p].key)
    /\ Goto(p, "Unlock")
    /\ UNCHANGED <<clock, cmu, frame, heap, cacheRaceRest>>

\* The loop of Cleanup: every entry that had expired at now is deleted.
QC_Sweep(p) ==
    /\ pc[p] = "Cleanup"
    /\ LET entries == qcache[1].entries
           kept == {k \in DOMAIN entries : ~After(frame[p].now, heap[entries[k]].expiresAt)}
       IN /\ qcache' = <<[qcache[1] EXCEPT !.entries = [k \in kept |-> entries[k]]]>>
          /\ lastSet' = [k \in (DOMAIN lastSet) \cap kept |-> lastSet[k]]
    /\ Goto(p, "Unlock")
    /\ UNCHANGED <<clock, cmu, frame, heap, cacheRaceRest>>

\* c.mu.Unlock(), and the return: the locals of the call are gone.
Q_Unlock(p) ==
    /\ pc[p] = "Unlock"
    /\ cmu' = Unlock(cmu, p)
    /\ Local(p, NoFrame)
    /\ Goto(p, "idle")
    /\ UNCHANGED <<clock, qcache, lastSet, heap, cacheRaceRest>>

(***************************************************************************)
(* Specifications.                                                         *)
(***************************************************************************)
\* NewModelRouter(nil, authDir) over empty success stores.
RouterInit ==
    /\ cfg = <<>>
    /\ routes = EmptyMap
    /\ fuzzy = <<>>
    /\ cache = <<>>
    /\ store = [l \in Locations |-> EmptyMap]
    /\ ret = Ret("none", <<>>, <<>>, <<>>)
    /\ recorded = NoReport
    /\ nReports = 0

\* No goroutine is in a call, no lock is held, nothing is allocated.
LockInit ==
    /\ rmu = NewRWMutex
    /\ cmu = NewRWMutex
    /\ pc = [p \in Goroutines |-> "idle"]
    /\ frame = [p \in Goroutines |-> NoFrame]
    /\ heap = <<>>
    /\ published = <<>>
    /\ kmu = NewRWMutex
    /\ imu = NewRWMutex
    /\ idcache = EmptyMap
    /\ fpheap = <<>>

\* No QuotaCache yet, and no function of the router called yet.
IdleInit ==
    /\ qcache = <<>>
    /\ qcall = [op |-> "none"]
    /\ lastSet = EmptyMap
    /\ fcall = NoFCall
    /\ LockInit

\* A caller's QuotaState at time 1, beside a new router.
Init ==
    /\ q \in InitialQuotaStates
    /\ clock = 1
    /\ call = NoCall
    /\ cooled = <<>>
    /\ RouterInit
    /\ IdleInit

\* A new router, beside a zero QuotaState at time 1.
InitRouter ==
    /\ q = ZeroQuotaState
    /\ clock = 1
    /\ call = NoCall
    /\ cooled = <<>>
    /\ RouterInit
    /\ IdleInit

QuotaNext ==
    \/ DoUpdateQuotaFromInfo
    \/ DoUpdateQuotaFrom429
    \/ DoClearQuotaState
    \/ DoIsQuotaExhausted
    \/ Tick

RouterNext ==
    \/ DoUpdateConfig
    \/ DoGetCandidates
    \/ DoRecordSuccess

\* The quota state machine under its callers.
Spec == Init /\ [][QuotaNext]_vars

\* The candidate router under its callers.
RouterSpec == InitRouter /\ [][RouterNext]_vars

FuncNext ==
    \/ DoMatchWildcard
    \/ DoResolveFuzzyCandidate
    \/ DoExtractBaseModelName

\* The router's functions of their arguments and the registry alone.
FuncSpec == InitRouter /\ [][FuncNext]_vars

ThinkingNext ==
    \/ DoStripThinkingConfig
    \/ DoDowngradeThinkingToText

\* The rewriting of request bodies, one call per behaviour.
ThinkingSpec == InitRouter /\ [][ThinkingNext]_vars

RouterRaceNext ==
    \/ \E p \in Updaters :
          \/ UC_Call(p)
          \/ UC_Lock(p)
          \/ UC_Locked(p)
          \/ UC_SetCfg(p)
          \/ UC_MakeRoutes(p)
          \/ UC_MakeFuzzy(p)
          \/ UC_Index(p)
          \/ UC_Cache(p)
          \/ UC_Unlock(p)
    \/ \E p \in Readers :
          \/ GC_Call(p)
          \/ GC_IsEnabledRLock(p)
          \/ GC_IsEnabled(p)
          \/ GC_RLock(p)
          \/ GC_Routes(p)
          \/ GC_Fuzzy(p)
          \/ GC_Return(p)

\* The router under goroutines that update and read it concurrently.
RouterRaceSpec == InitRouter /\ [][RouterRaceNext]_vars

\* NewQuotaCache(RaceTTL), shared by the goroutines, beside a new router.
CacheRaceInit ==
    /\ q = ZeroQuotaState
    /\ clock = 1
    /\ call = NoCall
    /\ cooled = <<>>
    /\ RouterInit
    /\ qcache = <<NewQuotaCache(RaceTTL)>>
    /\ qcall = [op |-> "NewQuotaCache", ttl |-> RaceTTL]
    /\ lastSet = EmptyMap
    /\ fcall = NoFCall
    /\ LockInit

CacheRaceNext ==
    \/ CR_Tick
    \/ \E p \in Workers :
          \/ QG_Call(p)
          \/ QG_RLock(p)
          \/ QG_Entries(p)
          \/ QG_RUnlock(p)
          \/ QG_ExpiresAt(p)
          \/ QG_Info(p)
          \/ QS_Call(p)
          \/ QS_Store(p)
          \/ QI_Call(p)
          \/ QI_Delete(p)
    \/ \E p \in Sweepers :
          \/ QC_Call(p)
          \/ QC_Sweep(p)
    \/ \E p \in Workers \cup Sweepers :
          \/ Q_Lock(p)
          \/ Q_Locked(p)
          \/ Q_Unlock(p)

\* The quota cache under goroutines that use and sweep it concurrently.
CacheRaceSpec == CacheRaceInit /\ [][CacheRaceNext]_vars

\* The steps of goroutine p of the router and its cache, the calls and the
\* return of GetCandidates apart.
RouterLockStep(p) ==
    \/ UC_Lock(p) \/ UC_Locked(p) \/ UC_SetCfg(p) \/ UC_MakeRoutes(p) \/ UC_MakeFuzzy(p)
    \/ UC_Index(p) \/ UL_Cache(p) \/ UL_UpdatePath(p) \/ UC_Unlock(p)
    \/ GC_IsEnabledRLock(p) \/ GC_IsEnabled(p) \/ GL_RLock(p) \/ GL_Cache(p)
    \/ GL_CacheGet(p)
    \/ RS_IsEnabledRLock(p) \/ RS_IsEnabled(p) \/ RS_RLock(p) \/ RS_Cache(p)
    \/ RS_SetLock(p) \/ RS_Set(p)
    \/ IE_RLock(p) \/ IE_Return(p)

RouterLockCallers == LockUpdaters \cup LockReaders \cup Reporters \cup Askers

\* Goroutine p, at the return statement of GetCandidates, returns.
GL_Returns(p) ==
    /\ pc[p] = "GetCandidates:lookup"
    /\ pc' = [pc EXCEPT ![p] = "idle"]

\* Goroutine p has not made its call yet.
Once(p) == frame[p] = NoFrame

RouterLockNext ==
    \/ \E p \in LockUpdaters : Once(p) /\ UC_Call(p)
    \/ \E p \in LockReaders : Once(p) /\ GC_Call(p)
    \/ \E p \in Reporters : Once(p) /\ RS_Call(p)
    \/ \E p \in Askers : Once(p) /\ IE_Call(p)
    \/ \E p \in RouterLockCallers : RouterLockStep(p)
    \/ \E p \in LockReaders : GL_Return(p)

\* The router and its cache under two updaters, a reader, a reporter and an
\* asker that make one call each, in any order and at any time. The
\* scheduler runs some goroutine that can take a step; the only step of a
\* goroutine at the return statement of GetCandidates is GL_Return, which
\* is always possible.
RouterLockSpec ==
    /\ InitRouter
    /\ [][RouterLockNext]_vars
    /\ WF_vars(\E p \in RouterLockCallers : RouterLockStep(p))
    /\ WF_pc(\E p \in LockReaders : GL_Returns(p))

SearchNext ==
    \/ DoUpdateConfig
    \/ DoSortCandidates
    \/ DoAutoSearchModels

\* Registry search and ranking under the configurations of the router.
SearchSpec == InitRouter /\ [][SearchNext]_vars

QuotaCacheNext ==
    \/ DoNewQuotaCache
    \/ DoQuotaCacheGet
    \/ DoQuotaCacheSet
    \/ DoQuotaCacheInvalidate
    \/ DoQuotaCacheCleanup
    \/ Elapse

\* The quota cache under its callers, from before it is constructed.
QuotaCacheSpec == InitRouter /\ [][QuotaCacheNext]_vars

(***************************************************************************)
(* Properties of the quota state machine (checked under Spec).             *)
(***************************************************************************)
\* The reset time IsQuotaExhausted goes by: ResetAt if set, else NextRecoverAt.
BestResetTime(s) == IF s.ResetAt # ZeroTime THEN s.ResetAt ELSE s.NextRecoverAt

Available == <<FALSE, ZeroTime>>

\* C1: after UpdateQuotaFrom429(state, nil, now, 0), whatever the state was,
\* Exceeded is true and NextRecoverAt is strictly after now;
\* IsQuotaExhausted(state, now) is (true, NextRecoverAt) and
\* IsQuotaExhausted(state, NextRecoverAt + 1) is (false, zero time).
C1_ExhaustedAfter429 ==
    (call.op = "UpdateQuotaFrom429" /\ call.retryAfter = <<>> /\ call.backoffLevel = 0)
    => /\ q.Exceeded
       /\ q.NextRecoverAt > call.now
       /\ IsQuotaExhausted(q, call.now) = <<TRUE, q.NextRecoverAt>>
       /\ IsQuotaExhausted(q, q.NextRecoverAt + 1) = Available

\* A 429 without Retry-After at level 0 hit, at the end of the clock, a
\* record with a known Total.
C1_Witness ==
    /\ call.op = "UpdateQuotaFrom429" /\ call.retryAfter = <<>> /\ call.backoffLevel = 0
    /\ call.now = MaxTime
    /\ q.Total = 2
    /\ q.NextRecoverAt = MaxTime + quotaBackoffBase

\* C2: after ClearQuotaState(state, now), whatever the state was, Total and
\* Remaining are -1, Exceeded is false, Reason is empty, BackoffLevel is 0,
\* ResetAt and NextRecoverAt are zero, UpdatedAt is now, and IsQuotaExhausted
\* reports (false, zero time) at every time.
C2_ClearResets ==
    call.op = "ClearQuotaState"
    => /\ q.Total = -1 /\ q.Remaining = -1
       /\ q.Exceeded = FALSE /\ q.Reason = "" /\ q.BackoffLevel = 0
       /\ q.ResetAt = ZeroTime /\ q.NextRecoverAt = ZeroTime
       /\ q.UpdatedAt = call.now
       /\ \A t \in Times : IsQuotaExhausted(q, t) = Available

\* ClearQuotaState was applied to a record that a 429 had marked exceeded
\* and that was still blocked.
C2_Witness ==
    /\ call.op = "ClearQuotaState"
    /\ call.pre.Exceeded /\ call.pre.Reason = "quota" /\ call.pre.BackoffLevel > 0
    /\ IsQuotaExhausted(call.pre, call.now)[1]
    /\ q.Total = -1

\* The result the claim C3 gives for IsQuotaExhausted(s, now).
C3_Expected(s, now) ==
    LET blocked == s.Exceeded \/ (s.Remaining = 0 /\ s.Total > 0)
        T == BestResetTime(s)
    IN IF ~blocked THEN Available
       ELSE IF T # ZeroTime /\ T > now THEN <<TRUE, T>>
       ELSE IF T # ZeroTime THEN Available
       ELSE <<TRUE, ZeroTime>>

\* C3: with blocked = Exceeded or (Remaining = 0 and Total > 0) and T =
\* ResetAt if set, else NextRecoverAt, IsQuotaExhausted(state, now) is
\* (false, zero) if not blocked, (true, T) if blocked and T is set and after
\* now, (false, zero) if blocked and T is set and not after now, and
\* (true, zero) if blocked and T is unset, for every state and every now.
C3_ExhaustedTable ==
    /\ \A now \in Times : IsQuotaExhausted(q, now) = C3_Expected(q, now)
    /\ call.op = "IsQuotaExhausted" => call.result = C3_Expected(q, call.now)

\* IsQuotaExhausted answered with ResetAt for a blocked record whose
\* ResetAt and NextRecoverAt are both set, to different times.
C3_Witness ==
    /\ call.op = "IsQuotaExhausted"
    /\ q.ResetAt # ZeroTime /\ q.NextRecoverAt # ZeroTime
    /\ q.ResetAt # q.NextRecoverAt
    /\ q.NextRecoverAt <= call.now
    /\ call.result = <<TRUE, q.ResetAt>>

\* Marked exceeded with neither reset time set.
Stuck(s) == s.Exceeded /\ s.ResetAt = ZeroTime /\ s.NextRecoverAt = ZeroTime

\* C4 as stated: a record marked exceeded with both ResetAt and
\* NextRecoverAt unset is reported exhausted at every time until an explicit
\* ClearQuotaState: no other step ends the block.
C4_BlockedUntilClear ==
    [][(Stuck(q) /\ call'.op # "ClearQuotaState")
        => \A t \in Times : IsQuotaExhausted(q', t)[1]]_vars

\* C4, amended: a record marked exceeded with both ResetAt and
\* NextRecoverAt unset is reported exhausted with no reset time at every
\* time, and it stays so while time passes; the record leaves that state
\* only by ClearQuotaState or by an UpdateQuotaFromInfo or
\* UpdateQuotaFrom429 that sets a reset time.
C4_BlockedUntilModified ==
    [][Stuck(q)
        => /\ \A t \in Times : IsQuotaExhausted(q, t) = <<TRUE, ZeroTime>>
           /\ call'.op \in {"Tick", "IsQuotaExhausted"} => Stuck(q')
           /\ ~Stuck(q')
                => \/ call'.op = "ClearQuotaState"
                   \/ /\ call'.op \in {"UpdateQuotaFromInfo", "UpdateQuotaFrom429"}
                      /\ BestResetTime(q') # ZeroTime]_vars

\* Time has run to the end of the clock over a record that a fetch marked
\* exceeded without a reset time.
C4_Witness ==
    /\ Stuck(q) /\ q.Reason = "quota_exhausted"
    /\ call.op = "Tick" /\ clock = MaxTime

\* C5: whatever the state was, UpdateQuotaFrom429 sets Exceeded = true,
\* Reason = "quota", Remaining = 0, Source = "429" and UpdatedAt = now, and
\* leaves NextRecoverAt equal to ResetAt; with a retryAfter both are
\* now + retryAfter.
C5_Marks429 ==
    call.op = "UpdateQuotaFrom429"
    => /\ q.Exceeded /\ q.Reason = "quota" /\ q.Remaining = 0
       /\ q.Source = "429" /\ q.UpdatedAt = call.now
       /\ q.NextRecoverAt = q.ResetAt
       /\ call.retryAfter # <<>> => q.ResetAt = call.now + call.retryAfter[1]

\* A 429 with a Retry-After of MaxRetryAfter hit a record with a known Total.
C5_Witness ==
    /\ call.op = "UpdateQuotaFrom429" /\ call.retryAfter = <<MaxRetryAfter>>
    /\ q.Total = 2
    /\ q.ResetAt = call.now + MaxRetryAfter

\* C6: UpdateQuotaFromInfo copies Total, Remaining, ResetAt, Source and
\* FetchedAt (into UpdatedAt) from info; it marks the state exceeded with
\* reason "quota_exhausted" exactly when info.Remaining = 0 and
\* info.Total > 0, and then sets NextRecoverAt to info.ResetAt only if
\* NextRecoverAt was unset; otherwise Exceeded, Reason and NextRecoverAt
\* stay as they were.
C6_UpdateFromInfo ==
    [][call'.op = "UpdateQuotaFromInfo"
        => LET info == call'.info
           IN /\ q'.Total = info.Total /\ q'.Remaining = info.Remaining
              /\ q'.ResetAt = info.ResetAt /\ q'.Source = info.Source
              /\ q'.UpdatedAt = info.FetchedAt
              /\ q'.BackoffLevel = q.BackoffLevel
              /\ IF info.Remaining = 0 /\ info.Total > 0
                 THEN /\ q'.Exceeded /\ q'.Reason = "quota_exhausted"
                      /\ q'.NextRecoverAt = IF q.NextRecoverAt = ZeroTime
                                            THEN info.ResetAt ELSE q.NextRecoverAt
                 ELSE /\ q'.Exceeded = q.Exceeded /\ q'.Reason = q.Reason
                      /\ q'.NextRecoverAt = q.NextRecoverAt]_vars

\* A fetch reporting exhaustion with a reset time was applied to a record
\* whose NextRecoverAt was already set to another time.
C6_Witness ==
    /\ call.op = "UpdateQuotaFromInfo"
    /\ call.info.Remaining = 0 /\ call.info.Total > 0
    /\ call.info.ResetAt # ZeroTime
    /\ q.NextRecoverAt # ZeroTime /\ q.NextRecoverAt # call.info.ResetAt
    /\ q.Reason = "quota_exhausted"

\* C7: a Total or Remaining of -1 is never treated as exhaustion:
\* UpdateQuotaFromInfo with info.Total = -1 or info.Remaining = -1 never
\* sets Exceeded, and IsQuotaExhausted reports available at every time for
\* a state not marked exceeded whose Total or Remaining is -1.
C7_UnknownNotExhausted ==
    [][/\ (call'.op = "UpdateQuotaFromInfo"
           /\ (call'.info.Total = -1 \/ call'.info.Remaining = -1))
          => q'.Exceeded = q.Exceeded
       /\ (~q'.Exceeded /\ (q'.Total = -1 \/ q'.Remaining = -1))
          => \A t \in Times : IsQuotaExhausted(q', t) = Available]_vars

\* A fetch with an unknown Total and Remaining = 0 was applied to a record
\* that was not marked exceeded, and IsQuotaExhausted then consulted.
C7_Witness ==
    /\ call.op = "IsQuotaExhausted" /\ call.result = Available
    /\ ~q.Exceeded /\ q.Total = -1 /\ q.Remaining = 0
    /\ q.Source = "api"

(***************************************************************************)
(* Properties of the candidate router (checked under RouterSpec).          *)
(***************************************************************************)
\* list starts with a, and a occurs nowhere else in it.
FirstAndOnly(list, a) ==
    /\ list # <<>>
    /\ list[1] = a
    /\ \A i \in 2..Len(list) : list[i] # a

\* list with every element equal to a left out, the others in order.
Removing(list, a) ==
    LET Other(x) == x # a
    IN SelectSeq(list, Other)

\* C8 as stated: with routing enabled, once RecordSuccess(v, a) has been
\* called and not superseded for v, GetCandidates(v) is a non-empty list
\* that starts with a and holds a nowhere else.
C8_CachedFirst ==
    \A v \in ReportedModels :
        (IsEnabled /\ recorded[v] # <<>>)
        => FirstAndOnly(GetCandidates(v), recorded[v][1].a)

\* C8, amended: with routing enabled, once RecordSuccess(v, a) has been
\* called with a non-empty a and a v that is non-empty and carries no
\* leading or trailing space, neither superseded for v nor followed by an
\* UpdateConfig that binds the success cache to another location,
\* GetCandidates(v) is a non-empty list that starts with a and holds a
\* nowhere else, whatever rules and auto-discovery results apply to v.
C8_CachedFirstAmended ==
    /\ \A v \in ReportedModels :
          (/\ IsEnabled /\ recorded[v] # <<>>
           /\ recorded[v][1].a # <<>> /\ ~recorded[v][1].moved
           /\ v # <<>> /\ v = TrimSpace(v))
          => FirstAndOnly(GetCandidates(v), recorded[v][1].a)
    /\ (/\ ret.op = "GetCandidates" /\ ret.v \in ReportedModels
        /\ IsEnabled /\ recorded[ret.v] # <<>>
        /\ recorded[ret.v][1].a # <<>> /\ ~recorded[ret.v][1].moved
        /\ ret.v = TrimSpace(ret.v))
       => FirstAndOnly(ret.result, recorded[ret.v][1].a)

\* GetCandidates returned the reported model first and once, under an
\* exact rule that lists the reported model twice.
C8_Witness ==
    /\ ret.op = "GetCandidates" /\ ret.v = N_gptx
    /\ recorded[N_gptx] # <<>> /\ recorded[N_gptx][1].a = M_modelB
    /\ ~recorded[N_gptx][1].moved
    /\ cfg = <<C_exact>>
    /\ ret.result = <<M_modelB, M_modelA>>

\* C9: when a rule matches v and the success cache holds a for v,
\* GetCandidates(v) is a followed by the rule's candidates in configured
\* order with every occurrence of a removed; with the one fuzzy rule
\* {"fast", [model-a, model-b]}, GetCandidates("use-fast-tier") is
\* [model-a, model-b] before and [model-b, model-a] after
\* RecordSuccess("use-fast-tier", "model-b").
C9_CachedThenRule ==
    /\ \A v \in VirtualModels :
          LET name == TrimSpace(v)
              entry == findRouteEntry(name)
          IN (/\ IsEnabled /\ name # <<>> /\ entry # <<>>
              /\ cache # <<>> /\ CacheGet(name) # <<>>)
             => /\ GetCandidates(v)
                     = <<CacheGet(name)>> \o Removing(entry[1].Candidates, CacheGet(name))
                /\ (ret.op = "GetCandidates" /\ ret.v = v)
                     => ret.result = <<CacheGet(name)>>
                                       \o Removing(entry[1].Candidates, CacheGet(name))
    /\ cfg = <<C_fuzzy>>
         => /\ CacheGet(N_useFastTier) = <<>>
                => GetCandidates(N_useFastTier) = <<M_modelA, M_modelB>>
            /\ (/\ recorded[N_useFastTier] # <<>>
                /\ recorded[N_useFastTier][1].a = M_modelB
                /\ ~recorded[N_useFastTier][1].moved)
                => GetCandidates(N_useFastTier) = <<M_modelB, M_modelA>>

\* With the one fuzzy rule "fast", GetCandidates("use-fast-tier") returned
\* [model-b, model-a] after RecordSuccess("use-fast-tier", "model-b").
C9_Witness ==
    /\ cfg = <<C_fuzzy>>
    /\ recorded[N_useFastTier] # <<>> /\ recorded[N_useFastTier][1].a = M_modelB
    /\ ret.op = "GetCandidates" /\ ret.v = N_useFastTier
    /\ ret.result = <<M_modelB, M_modelA>>

\* C10: RecordSuccess is idempotent: a second RecordSuccess(v, a) right
\* after the first leaves the success cache, and GetCandidates(v') for
\* every v', as the first call left them.
C10_RecordSuccessIdempotent ==
    (ret.op = "RecordSuccess" /\ ret.result # <<>>)
    => /\ store = ret.result[1].store
       /\ \A v \in VirtualModels : GetCandidates(v) = ret.result[1].candidates[v]

\* RecordSuccess was repeated with the same arguments while routing was
\* enabled, and the cache holds the reported model.
C10_Witness ==
    /\ ret.op = "RecordSuccess" /\ ret.result # <<>>
    /\ IsEnabled /\ ret.a # <<>>
    /\ CacheGet(ret.v) = ret.a
    /\ ret.v = N_gptx
    /\ FirstAndOnly(GetCandidates(N_gptx), ret.a)

\* The cached model GetCandidates finds for a trimmed name; <<>> is none.
CachedFor(name) == IF cache # <<>> THEN CacheGet(name) ELSE <<>>

\* The rule the configuration assigns to a trimmed request name: the last
\* exact rule, in configured order, whose trimmed lowercase name equals the
\* lowercase request; failing that the first fuzzy rule whose lowercase name
\* occurs in the lowercase request; <<>> when there is neither. Rules whose
\* name is blank are not rules.
MatchingRule(name) ==
    LET rs == cfg[1].Routes
        lowerName == ToLower(name)
        named == {i \in 1..Len(rs) : TrimSpace(rs[i].Name) # <<>>}
        exact == {i \in named : ~rs[i].Fuzzy
                                /\ ToLower(TrimSpace(rs[i].Name)) = lowerName}
        fz == {i \in named : rs[i].Fuzzy /\ Contains(lowerName, ToLower(rs[i].Name))}
    IN IF exact # {} THEN <<rs[CHOOSE i \in exact : \A j \in exact : j <= i]>>
       ELSE IF fz # {} THEN <<rs[CHOOSE i \in fz : \A j \in fz : i <= j]>>
       ELSE <<>>

\* C11: after UpdateConfig with a nil or disabled configuration both
\* indexes are empty; while routing is disabled every GetCandidates returns
\* empty, also for a name the success cache holds, and RecordSuccess leaves
\* the success cache alone; GetCandidates returns empty for a name that is
\* blank after trimming.
C11_DisabledIsNoOp ==
    [][/\ (ret'.op = "UpdateConfig" /\ (cfg' = <<>> \/ ~cfg'[1].Enabled))
          => (routes' = EmptyMap /\ fuzzy' = <<>>)
       /\ (ret'.op = "GetCandidates" /\ (~IsEnabled \/ TrimSpace(ret'.v) = <<>>))
          => ret'.result = <<>>
       /\ (ret'.op = "RecordSuccess" /\ ~IsEnabled) => store' = store]_vars

\* GetCandidates returned empty for a name whose cached model is still in
\* the store, after a disabled configuration replaced one with rules.
C11_Witness ==
    /\ cfg = <<C_off>> /\ routes = EmptyMap /\ fuzzy = <<>>
    /\ cache # <<>> /\ CacheGet(N_gptx) = M_modelB
    /\ ret.op = "GetCandidates" /\ ret.v = N_gptx /\ ret.result = <<>>

\* C12: with routing enabled and no cached model for the requested name,
\* GetCandidates returns the candidates of the matching rule as configured:
\* the exact rule named like the request, in lowercase, even when fuzzy
\* rules match too, otherwise the first fuzzy rule in configured order
\* whose lowercase name occurs in the lowercase request.
C12_RuleVerbatim ==
    LET name == TrimSpace(ret.v)
    IN (/\ ret.op = "GetCandidates" /\ IsEnabled /\ name # <<>>
        /\ CachedFor(name) = <<>> /\ MatchingRule(name) # <<>>)
       => ret.result = MatchingRule(name)[1].Candidates

\* GetCandidates("gpt-x") returned the exact rule's list, duplicates
\* included, although the fuzzy rule "gpt" is configured before it.
C12_Witness ==
    /\ cfg = <<C_exact>> /\ ret.op = "GetCandidates" /\ ret.v = N_gptx
    /\ CachedFor(N_gptx) = <<>>
    /\ Contains(N_gptx, ToLower(R_gpt.Name))
    /\ ret.result = <<M_modelB, M_modelA, M_modelB>>

\* C13: when the success cache holds c for v and no rule matches v,
\* GetCandidates(v) is c followed by the auto-discovery results for v
\* without c, and exactly [c] when auto-discovery finds nothing.
C13_CachedThenAuto ==
    LET name == TrimSpace(ret.v)
        c == CachedFor(name)
        found == autoSearchModels(name)
    IN (/\ ret.op = "GetCandidates" /\ IsEnabled /\ name # <<>>
        /\ c # <<>> /\ MatchingRule(name) = <<>>)
       => /\ ret.result = <<c>> \o Removing(found, c)
          /\ found = <<>> => ret.result = <<c>>

\* GetCandidates("gpt-x") returned the cached model followed by the two
\* registry models found for "gpt-x", with no rule configured.
C13_Witness ==
    /\ ret.op = "GetCandidates" /\ ret.v = N_gptx /\ IsEnabled
    /\ cfg[1].Routes = <<>>
    /\ CachedFor(N_gptx) = M_modelB
    /\ ret.result = <<M_modelB, M_gptx0408, M_GPTXmini>>

RECURSIVE Glob(_, _)
Glob(p, t) ==
    IF p = <<>> THEN t = <<>>
    ELSE IF Head(p) = "*" THEN Glob(Tail(p), t) \/ (t # <<>> /\ Glob(p, Tail(t)))
    ELSE /\ t # <<>>
         /\ ToLowerChar(Head(p)) = ToLowerChar(Head(t))
         /\ Glob(Tail(p), Tail(t))

Served(m) == Len(GetProviderName(m)) > 0
Registered(m) == m # <<>> /\ \E i \in 1..Len(registryModels) : registryModels[i] = m

\* The identifier out without the "(s)" written behind it.
ModelPartOf(out, suffix) ==
    IF suffix # <<>> /\ suffix[1] # <<>> /\ HasSuffix(out, Sprintf(<<>>, suffix[1]))
    THEN SubSeq(out, 1, Len(out) - Len(suffix[1]) - 2)
    ELSE out

\* C15: ResolveFuzzyCandidate returns empty or an identifier whose model
\* part has a serving provider; a pattern without a wildcard resolves, to
\* itself, exactly when it has a serving provider; a pattern with a wildcard
\* resolves only to a registered model that the pattern matches and that
\* has a serving provider, and to empty exactly when there is no such model.
C15_ResolvedIsServed ==
    fcall.fn = "ResolveFuzzyCandidate" =>
        LET p == fcall.pattern
            model == ModelPartOf(fcall.out, fcall.suffix)
            eligible == {i \in 1..Len(registryModels) :
                            /\ registryModels[i] # <<>>
                            /\ Glob(p, registryModels[i])
                            /\ Served(registryModels[i])}
        IN /\ fcall.out # <<>> => Served(model)
           /\ ~Contains(p, <<"*">>)
                => /\ (fcall.out # <<>>) <=> Served(p)
                   /\ fcall.out # <<>> => model = p
           /\ Contains(p, <<"*">>)
                => /\ fcall.out # <<>>
                        => Registered(model) /\ Glob(p, model) /\ Served(model)
                   /\ (fcall.out = <<>>) <=> (eligible = {})

\* "*old(high)" resolved to empty: the one registered model it matches has
\* no provider; and "gpt-x*" passed it over for a served model.
C15_Witness ==
    /\ fcall.fn = "ResolveFuzzyCandidate"
    /\ fcall.pattern = P_starOld /\ fcall.suffix = <<S_high>>
    /\ Glob(P_starOld, M_gptxOld) /\ ~Served(M_gptxOld)
    /\ fcall.out = <<>>
    /\ ResolveFuzzyCandidate(P_gptxStar) = M_gptx0408

\* C16 as stated: for a pattern p(s), when p resolves to a model m the
\* result is exactly m(s), and empty when p resolves to nothing; without a
\* suffix the result is m.
C16_SuffixVerbatim ==
    fcall.fn = "ResolveFuzzyCandidate" =>
        LET m == ResolveFuzzyCandidate(fcall.pattern)
        IN fcall.out = IF m = <<>> THEN <<>>
                       ELSE IF fcall.suffix = <<>> THEN m
                       ELSE Sprintf(m, fcall.suffix[1])

\* C16, amended: for a pattern p(s) with a non-empty s, when p resolves to
\* a model m the result is exactly m(s); for p() and for p without a suffix
\* the result is m; the result is empty exactly when p resolves to nothing.
C16_SuffixVerbatimNonEmpty ==
    fcall.fn = "ResolveFuzzyCandidate" =>
        LET m == ResolveFuzzyCandidate(fcall.pattern)
        IN fcall.out = IF m = <<>> THEN <<>>
                       ELSE IF fcall.suffix = <<>> \/ fcall.suffix[1] = <<>> THEN m
                       ELSE Sprintf(m, fcall.suffix[1])

\* " *MINI( x ) " resolved to "GPT-X-mini( x )": the registered
\* identifier, with the suffix as written.
C16_Witness ==
    /\ fcall.fn = "ResolveFuzzyCandidate"
    /\ fcall.pattern = P_starMINI /\ fcall.suffix = <<S_spaced>>
    /\ fcall.candidate = <<" ">> \o Sprintf(P_starMINI, S_spaced) \o <<" ">>
    /\ fcall.out = Sprintf(M_GPTXmini, S_spaced)

\* C20 as stated: matchWildcard("*gpt-5*", "openai-gpt-5-codex"),
\* ("claude-*", "claude") and ("a*b*c", "axxbyyc") are true and
\* ("a*b", "a") is false.
C20_MatchExamples ==
    fcall.fn = "matchWildcard" =>
        /\ (fcall.pattern = P_gpt5 /\ fcall.text = T_gpt5codex) => fcall.out = TRUE
        /\ (fcall.pattern = P_claude /\ fcall.text = T_claude) => fcall.out = TRUE
        /\ (fcall.pattern = P_abc /\ fcall.text = T_axxbyyc) => fcall.out = TRUE
        /\ (fcall.pattern = P_ab /\ fcall.text = T_a) => fcall.out = FALSE

\* C20, amended: matchWildcard("*gpt-5*", "openai-gpt-5-codex") and
\* ("a*b*c", "axxbyyc") are true, ("a*b", "a") is false, and
\* ("claude-*", "claude") is false, the text not starting with "claude-";
\* ("claude-*", "claude-") is true.
C20_MatchExamplesAmended ==
    fcall.fn = "matchWildcard" =>
        /\ (fcall.pattern = P_gpt5 /\ fcall.text = T_gpt5codex) => fcall.out = TRUE
        /\ (fcall.pattern = P_claude /\ fcall.text = T_claude) => fcall.out = FALSE
        /\ (fcall.pattern = P_claude /\ fcall.text = T_claudeDash) => fcall.out = TRUE
        /\ (fcall.pattern = P_abc /\ fcall.text = T_axxbyyc) => fcall.out = TRUE
        /\ (fcall.pattern = P_ab /\ fcall.text = T_a) => fcall.out = FALSE

\* matchWildcard("a*b", "a") was called and answered false.
C20_Witness ==
    /\ fcall.fn = "matchWildcard"
    /\ fcall.pattern = P_ab /\ fcall.text = T_a
    /\ fcall.out = FALSE

(***************************************************************************)
(* Properties of the quota cache (checked under QuotaCacheSpec).           *)
(***************************************************************************)
KeyOf(t) == quotaCacheKey(t[1], t[2], t[3])
GetAt(c, t, now) == QuotaCacheGet(c, t[1], t[2], t[3], now)
Miss == <<ZeroQuotaInfo, FALSE>>

\* C17: after Set(p, a, m, info) at time t with no later Set or Invalidate
\* for the key, Get(p, a, m) returns (info, true) at every time up to
\* t + ttl and a miss at every later time, ttl being the configured TTL, or
\* 5 minutes when that is <= 0; Set overwrites the entry and restarts its
\* lifetime; Get leaves the entries, expired ones included, as they are.
C17_SetThenGet ==
    /\ [](qcache # <<>> =>
            \A t \in Triples :
                KeyOf(t) \in DOMAIN lastSet =>
                    GetAt(qcache, t, clock)
                      = IF clock <= lastSet[KeyOf(t)].at + qcache[1].ttl
                        THEN <<lastSet[KeyOf(t)].info, TRUE>>
                        ELSE Miss)
    /\ [][/\ qcall'.op = "NewQuotaCache"
             => qcache'[1].ttl = IF qcall'.ttl <= 0 THEN 5 ELSE qcall'.ttl
          /\ qcall'.op = "Get"
             => /\ qcache' = qcache
                /\ KeyOf(qcall'.triple) \in DOMAIN lastSet
                   => qcall'.result
                        = IF clock <= lastSet[KeyOf(qcall'.triple)].at + qcache[1].ttl
                          THEN <<lastSet[KeyOf(qcall'.triple)].info, TRUE>>
                          ELSE Miss
          /\ (qcall'.op = "Set" /\ qcache # <<>>)
             => /\ qcache'[1].ttl = qcache[1].ttl
                /\ qcache'[1].entries[KeyOf(qcall'.triple)]
                     = [info |-> qcall'.info, expiresAt |-> clock + qcache[1].ttl]]_vars

\* A cache constructed with a TTL <= 0: Get missed six minutes after the
\* Set, and the expired entry is still in the map.
C17_Witness ==
    /\ qcache # <<>> /\ qcache[1].ttl = 5
    /\ qcall.op = "Get" /\ qcall.result = Miss
    /\ KeyOf(qcall.triple) \in DOMAIN lastSet
    /\ clock = lastSet[KeyOf(qcall.triple)].at + 6
    /\ KeyOf(qcall.triple) \in DOMAIN qcache[1].entries

\* C18 as stated: after Invalidate(p, a, m) a Get for (p, a, m) misses,
\* and after Set or Invalidate for (p, a, m) the Get result of every other
\* (provider, authID, model) triple is what it was before.
C18_OnlyThatTriple ==
    [][(qcall'.op \in {"Set", "Invalidate"} /\ qcache # <<>>)
        => /\ qcall'.op = "Invalidate" => GetAt(qcache', qcall'.triple, clock) = Miss
           /\ \A t \in Triples \ {qcall'.triple} :
                 GetAt(qcache', t, clock) = GetAt(qcache, t, clock)]_vars

\* C19: Cleanup at time now removes every entry whose expiresAt has
\* passed and keeps every other entry as it is; the removed entries are
\* those for which Get at that time reports a miss, so that no Get result
\* changes.
C19_CleanupSweepsExpired ==
    [][(qcall'.op = "Cleanup" /\ qcache # <<>>)
        => LET before == qcache[1].entries
               after == qcache'[1].entries
           IN /\ DOMAIN after = {k \in DOMAIN before : ~(before[k].expiresAt < clock)}
              /\ \A k \in DOMAIN after : after[k] = before[k]
              /\ qcache'[1].ttl = qcache[1].ttl
              /\ \A t \in Triples :
                    /\ GetAt(qcache', t, clock) = GetAt(qcache, t, clock)
                    /\ KeyOf(t) \in DOMAIN before
                       => (KeyOf(t) \notin DOMAIN after
                             <=> GetAt(qcache, t, clock) = Miss)]_vars

\* Cleanup removed an expired entry and kept one that expires this very
\* minute.
C19_Witness ==
    /\ qcall.op = "Cleanup" /\ qcache # <<>>
    /\ \E k \in DOMAIN lastSet : k \notin DOMAIN qcache[1].entries
    /\ \E k \in DOMAIN qcache[1].entries : qcache[1].entries[k].expiresAt = clock

(***************************************************************************)
(* Claims on extractBaseModelName, under FuncSpec.                          *)
(***************************************************************************)
\* C21: extractBaseModelName gives the listed results: "claude-sonnet-20251124"
\* yields "claude-sonnet", "gpt-4-turbo-2024-04-09" yields "gpt-4-turbo",
\* "plain-name" yields "plain-name" and "v1" yields "v1".
C21_BaseNameExamples ==
    fcall.fn = "extractBaseModelName" =>
        /\ fcall.name = N_claudeSonnetDated => fcall.out = N_claudeSonnet
        /\ fcall.name = N_gpt4turboDated => fcall.out = N_gpt4turbo
        /\ fcall.name = N_plainName => fcall.out = N_plainName
        /\ fcall.name = N_v1 => fcall.out = N_v1

\* C22: for every model name that is non-empty after trimming, the base name
\* extractBaseModelName returns is non-empty.
C22_NeverEmpty ==
    (fcall.fn = "extractBaseModelName" /\ TrimSpace(fcall.name) # <<>>)
        => fcall.out # <<>>

\* A segment is strippable iff it is all digits of length 4, 6 or 8, or is
\* latest/preview/beta/alpha in any case, or is v followed by digits and dots.
Strippable(seg) ==
    \/ Len(seg) \in {4, 6, 8} /\ \A i \in 1..Len(seg) : seg[i] \in Digits
    \/ ToLower(seg) \in {W_latest, W_preview, W_beta, W_alpha}
    \/ /\ Len(seg) >= 2
       /\ seg[1] \in {"v", "V"}
       /\ \A i \in 2..Len(seg) : seg[i] \in Digits \cup {"."}

\* The number of segments in front of the maximal trailing run of strippable
\* segments.
KeptCount(parts) ==
    CHOOSE k \in 0..Len(parts) :
        /\ \A i \in (k + 1)..Len(parts) : Strippable(parts[i])
        /\ k = 0 \/ ~Strippable(parts[k])

\* out is a prefix of name that ends at a segment boundary.
PrefixAtBoundary(out, name) ==
    /\ HasPrefix(name, out)
    /\ out = name \/ name[Len(out) + 1] = "-"

\* The properties of C29 that do not depend on which segments are removed.
BaseNameShape(name, parts, out) ==
    /\ PrefixAtBoundary(out, name)
    /\ ~Strippable(parts[Len(parts)]) => out = name
    /\ extractBaseModelName(out) = out

C28_EqualsGlob ==
    fcall.fn = "matchWildcard" =>
        /\ fcall.out = Glob(fcall.pattern, fcall.text)
        /\ (fcall.pattern # <<>> /\ \A i \in 1..Len(fcall.pattern) : fcall.pattern[i] = "*")
              => fcall.out = TRUE
        /\ fcall.pattern = <<>> => fcall.out = (fcall.text = <<>>)

\* matchWildcard("a*a", "a") was called and answered false: the one "a"
\* cannot serve as both prefix and suffix.
C28_Witness ==
    /\ fcall.fn = "matchWildcard"
    /\ fcall.pattern = <<"a", "*", "a">> /\ fcall.text = <<"a">>
    /\ fcall.out = FALSE

(***************************************************************************)
(* Claims on ranking and registry search, under SearchSpec.                 *)
(***************************************************************************)
\* The priority list the configuration c holds for the family of baseName.
PriorityListFor(c, baseName) ==
    IF c = <<>> THEN <<>> ELSE c[1].NativeProviderPriority[inferModelFamily(baseName)]

\* The lowest index at which the list names one of the providers; the length
\* of the list when it names none of them.
LowestIndex(providers, list) ==
    LET at == {i \in 1..Len(list) : \E k \in 1..Len(providers) : providers[k] = list[i]}
    IN IF at = {} THEN Len(list)
       ELSE (CHOOSE i \in at : \A j \in at : i <= j) - 1

\* The position of the identifier id in the candidates handed over.
DiscoveryIndex(candidates, id) ==
    CHOOSE i \in 1..Len(candidates) : candidates[i].modelID = id

\* C23: with a non-empty priority list for the inferred family the result of
\* sortCandidatesByProviderPriority is a permutation of the candidates ordered
\* by the lowest priority index among each candidate's providers; candidates
\* of equal best priority keep their discovery order, those with no provider
\* in the list come last in discovery order, and with no list the order is
\* unchanged.
C23_RankedByLowestIndex ==
    fcall.fn = "sortCandidatesByProviderPriority" =>
        LET in == fcall.candidates
            out == fcall.out
            list == PriorityListFor(fcall.cfg, fcall.baseName)
            rank(id) == LowestIndex(in[DiscoveryIndex(in, id)].providers, list)
        IN /\ Len(out) = Len(in)
           /\ {out[i] : i \in 1..Len(out)} = {in[i].modelID : i \in 1..Len(in)}
           /\ list = <<>> => \A i \in 1..Len(in) : out[i] = in[i].modelID
           /\ \A i, j \in 1..Len(out) :
                 i < j =>
                    \/ rank(out[i]) < rank(out[j])
                    \/ /\ rank(out[i]) = rank(out[j])
                       /\ DiscoveryIndex(in, out[i]) < DiscoveryIndex(in, out[j])

\* C30: every identifier autoSearchModels returns contains the lowercase base
\* name of the request, has a serving provider and occurs once; every registry
\* model with those two properties is returned; the result is empty when the
\* base name is empty or no model qualifies.
C30_SearchResult ==
    fcall.fn = "autoSearchModels" =>
        LET out == fcall.out
            base == ToLower(extractBaseModelName(fcall.modelName))
            qualifies(m) == Registered(m) /\ Contains(ToLower(m), base) /\ Served(m)
        IN /\ \A i \in 1..Len(out) : qualifies(out[i])
           /\ \A i, j \in 1..Len(out) : out[i] = out[j] => i = j
           /\ base # <<>> =>
                 \A k \in 1..Len(registryModels) :
                    qualifies(registryModels[k])
                       => \E i \in 1..Len(out) : out[i] = registryModels[k]
           /\ base = <<>> => out = <<>>
           /\ (\A k \in 1..Len(registryModels) : ~qualifies(registryModels[k]))
                 => out = <<>>

\* autoSearchModels("GPT-X-2024") returned the two served models that contain
\* "gpt-x", each once, and not the unserved one.
C30_Witness ==
    /\ fcall.fn = "autoSearchModels"
    /\ fcall.modelName = N_GPTXdated
    /\ Len(fcall.out) = 2
    /\ {fcall.out[i] : i \in 1..2} = {M_gptx0408, M_GPTXmini}
    /\ Contains(ToLower(M_gptxOld), ToLower(extractBaseModelName(N_GPTXdated)))

(***************************************************************************)
(* Claims on the rewriting of request bodies, under ThinkingSpec.           *)
(***************************************************************************)
\* The thinking content of a block: its "thinking" string, or its "text"
\* when that is empty or absent.
ThinkingContent(block) ==
    LET own == ResultString(ResultGet(block, <<"thinking">>))
    IN IF own # "" THEN own ELSE ResultString(ResultGet(block, <<"text">>))

\* The block after is the block before, downgraded: a thinking block has
\* become a text block holding the thinking content, without thinking and
\* signature; any other block has only lost its signature.
Downgraded(before, after) ==
    IF ResultGet(before, <<"type">>) = JString("thinking")
    THEN /\ after.t = "object"
         /\ DOMAIN after.v = ((DOMAIN before.v) \ {"thinking", "signature"}) \cup {"type", "text"}
         /\ after.v["type"] = JString("text")
         /\ after.v["text"] = JString(ThinkingContent(before))
         /\ \A k \in (DOMAIN after.v) \ {"type", "text"} : after.v[k] = before.v[k]
    ELSE after = DeleteBytes(before, <<"signature">>)

\* The message after is the message before with every block of a content
\* array downgraded, in the same order, and nothing else changed.
DowngradedMessage(before, after) ==
    IF IsArray(ResultGet(before, <<"content">>))
    THEN /\ after.t = "object"
         /\ DOMAIN after.v = DOMAIN before.v
         /\ \A k \in (DOMAIN before.v) \ {"content"} : after.v[k] = before.v[k]
         /\ IsArray(after.v["content"])
         /\ Len(after.v["content"].v) = Len(before.v["content"].v)
         /\ \A j \in 1..Len(before.v["content"].v) :
               Downgraded(before.v["content"].v[j], after.v["content"].v[j])
    ELSE after = before

\* Some content block of a message of the body satisfies P.
SomeBlock(body, P(_)) ==
    /\ IsArray(ResultGet(body, <<"messages">>))
    /\ \E i \in 1..Len(body.v["messages"].v) :
          LET content == ResultGet(body.v["messages"].v[i], <<"content">>)
          IN IsArray(content) /\ \E j \in 1..Len(content.v) : P(content.v[j])

IsThinkingBlock(block) == ResultGet(block, <<"type">>) = JString("thinking")
HasSignature(block) == Exists(ResultGet(block, <<"signature">>))

\* C26: DowngradeThinkingToText turns every content block of type "thinking"
\* of a message's content array into a text block whose text is the thinking
\* content, without thinking and signature fields, removes the signature of
\* every other block and leaves the rest, its order and text as it was; no
\* block of type "thinking" and no signature remains.
C26_ThinkingBecomesText ==
    (/\ fcall.fn = "DowngradeThinkingToText"
     /\ ValidBytes(fcall.body)
     /\ IsArray(ResultGet(fcall.body, <<"messages">>)))
    => LET before == fcall.body.v["messages"].v
           after == ResultGet(fcall.out, <<"messages">>)
       IN /\ IsArray(after)
          /\ Len(after.v) = Len(before)
          /\ \A i \in 1..Len(before) : DowngradedMessage(before[i], after.v[i])
          /\ ~SomeBlock(fcall.out, IsThinkingBlock)
          /\ ~SomeBlock(fcall.out, HasSignature)

\* The thinking configuration paths of each known provider.
ThinkingPaths(provider) ==
    CASE provider = "claude" -> {<<"thinking">>}
      [] provider = "gemini" -> {<<"generationConfig", "thinkingConfig">>}
      [] provider = "gemini-cli" -> {<<"request", "generationConfig", "thinkingConfig">>}
      [] provider = "antigravity" -> {<<"request", "generationConfig", "thinkingConfig">>}
      [] provider = "openai" -> {<<"reasoning_effort">>}
      [] provider = "codex" -> {<<"reasoning", "effort">>}
      [] provider = "iflow" -> {<<"chat_template_kwargs", "enable_thinking">>,
                                <<"chat_template_kwargs", "clear_thinking">>,
                                <<"reasoning_split">>, <<"reasoning_effort">>}

\* The value after is the value before without the fields at the paths:
\* every other field is there with the value it had, and no field is new.
RECURSIVE SameExcept(_, _, _)
SameExcept(before, after, paths) ==
    IF paths = {} \/ before.t # "object" THEN after = before
    ELSE /\ after.t = "object"
         /\ DOMAIN after.v = (DOMAIN before.v) \ {p[1] : p \in {pp \in paths : Len(pp) = 1}}
         /\ \A k \in DOMAIN after.v :
               SameExcept(before.v[k], after.v[k],
                          {Tail(p) : p \in {pp \in paths : Len(pp) > 1 /\ pp[1] = k}})

\* C27: StripThinkingConfig and DowngradeThinkingToText return an empty body
\* and a body that is not valid JSON unchanged; StripThinkingConfig returns
\* the body unchanged for an unknown provider, and for a known provider it
\* removes that provider's thinking configuration paths and nothing else.
C27_StripOnlyConfig ==
    /\ (fcall.fn \in {"StripThinkingConfig", "DowngradeThinkingToText"}
        /\ ~ValidBytes(fcall.body)) => fcall.out = fcall.body
    /\ fcall.fn = "StripThinkingConfig" =>
          IF ~ValidBytes(fcall.body) \/ fcall.provider \notin KnownProviders
          THEN fcall.out = fcall.body
          ELSE SameExcept(fcall.body, fcall.out, ThinkingPaths(fcall.provider))

\* StripThinkingConfig for "iflow" took the two switches out of
\* chat_template_kwargs and the two top-level fields, and kept the rest of
\* a body that carries every provider's configuration.
C27_Witness ==
    /\ fcall.fn = "StripThinkingConfig"
    /\ fcall.provider = "iflow"
    /\ ValidBytes(fcall.body)
    /\ DOMAIN fcall.body.v
          = {"model", "thinking", "generationConfig", "request", "reasoning_effort",
             "reasoning", "chat_template_kwargs", "reasoning_split",
             "generationConfig_thinkingConfig", "messages"}
    /\ DOMAIN fcall.out.v = (DOMAIN fcall.body.v) \ {"reasoning_split", "reasoning_effort"}
    /\ fcall.out.v["chat_template_kwargs"] = JObject([keep |-> JString("kept")])

(***************************************************************************)
(* Claims on the router under concurrent callers, under RouterRaceSpec.     *)
(***************************************************************************)
\* The rules of configuration c that are indexed: those of an enabled
\* configuration whose name is not blank.
IndexedRules(c, isFuzzy) ==
    IF c = <<>> \/ ~c[1].Enabled THEN {}
    ELSE {i \in 1..Len(c[1].Routes) :
             /\ c[1].Routes[i].Fuzzy = isFuzzy
             /\ TrimSpace(c[1].Routes[i].Name) # <<>>}

\* The exact-rule map of configuration c: each trimmed lowercase name leads
\* to the last non-fuzzy rule of that name.
ExactIndexOf(c) ==
    LET keyOf(i) == ToLower(TrimSpace(c[1].Routes[i].Name))
        rules == IndexedRules(c, FALSE)
    IN [k \in {keyOf(i) : i \in rules} |->
           c[1].Routes[CHOOSE i \in rules :
                          keyOf(i) = k /\ \A j \in rules : keyOf(j) = k => j <= i]]

\* The fuzzy-rule list of configuration c: its fuzzy rules in their order.
RECURSIVE FuzzyFrom(_, _)
FuzzyFrom(c, i) ==
    IF c = <<>> \/ i > Len(c[1].Routes) THEN <<>>
    ELSE IF i \in IndexedRules(c, TRUE) THEN <<c[1].Routes[i]>> \o FuzzyFrom(c, i + 1)
    ELSE FuzzyFrom(c, i + 1)
FuzzyIndexOf(c) == FuzzyFrom(c, 1)

\* Goroutine p is inside the read-locked part of GetCandidates, past the
\* lookup in the exact-rule map.
LookingUp(p) ==
    /\ frame[p].op = "GetCandidates"
    /\ pc[p] \in {"GetCandidates:fuzzy", "GetCandidates:return"}

\* C24: under any interleaving of UpdateConfig with concurrent GetCandidates
\* calls, the exact-rule map and the fuzzy-rule list a reader looks rules up
\* in are those of one configuration, the one installed by the last
\* UpdateConfig that returned: never a partially built index, never a mix.
C24_ReadersSeeOneConfig ==
    \A p \in Readers :
        LookingUp(p) =>
            /\ frame[p].seenRoutes # <<>> => frame[p].seenRoutes[1] = ExactIndexOf(published)
            /\ frame[p].seenFuzzy # <<>> => frame[p].seenFuzzy[1] = FuzzyIndexOf(published)

\* A reader has looked a name up in both indexes of the fuzzy-only
\* configuration while an UpdateConfig with the exact rules waits for the lock.
C24_Witness ==
    \E p \in Readers, u \in Updaters :
        /\ LookingUp(p)
        /\ pc[p] = "GetCandidates:return"
        /\ frame[p].seenRoutes = <<ExactIndexOf(<<C_fuzzy>>)>>
        /\ frame[p].seenFuzzy = <<FuzzyIndexOf(<<C_fuzzy>>)>>
        /\ pc[u] = "UpdateConfig:Locked"
        /\ frame[u].cfg = <<C_exact>>


(***************************************************************************)
(* C25: under any interleaving of concurrent Get, Set, Invalidate and       *)
(* Cleanup calls on one QuotaCache, the entries map is read only by a       *)
(* goroutine holding the cache lock and changed only by the goroutine       *)
(* holding it exclusively, an entry once stored is never modified, and a    *)
(* Get that hits returns the info of the latest Set of its key that came    *)
(* before its read of the map and had not been removed by then.             *)
(***************************************************************************)
C25_MapWriters == {p \in Workers \cup Sweepers : pc[p] \in {"Set", "Invalidate", "Cleanup"}}

C25_LockHeld ==
    /\ \A p \in Workers : pc[p] = "Get:entries" => p \in cmu.readers
    /\ \A p \in C25_MapWriters : Locked(cmu, p)

C25_HitIsLatestSet ==
    \A p \in Workers :
        (frame[p] # NoFrame /\ frame[p].op = "Get" /\ frame[p].returned
            /\ frame[p].result[2])
        => frame[p].expect = <<frame[p].result[1]>>

C25_Step ==
    /\ \A a \in DOMAIN heap : a \in DOMAIN heap' /\ heap'[a] = heap[a]
    /\ qcache' # qcache =>
          \E p \in C25_MapWriters : Locked(cmu, p) /\ pc'[p] = "Unlock"
    /\ \A p \in Workers :
          (pc[p] = "Get:entries" /\ pc'[p] # pc[p]) => p \in cmu.readers

C25_LockedImmutableLatest ==
    /\ [](C25_LockHeld /\ C25_HitIsLatestSet)
    /\ [][C25_Step]_vars

\* A Get has read an entry from the map and is about to return its info, and
\* since its read a Set or an Invalidate of the same key has changed the map.
C25_Witness ==
    \E p \in Workers :
        /\ pc[p] = "Get:info"
        /\ LET key == frame[p].key
               entries == qcache[1].entries
           IN \/ key \notin DOMAIN entries
              \/ entries[key] # frame[p].entry[1]


(***************************************************************************)
(* C31: after every UpdateConfig with an enabled configuration the index    *)
(* holds exactly the configured rules whose name is not blank: the exact    *)
(* map leads from each trimmed lowercase name to the last non-fuzzy rule    *)
(* of that name, the fuzzy list holds the fuzzy rules in configured order,  *)
(* and nothing of an earlier configuration remains.                         *)
(***************************************************************************)
C31_IndexIsConfigured ==
    (ret.op = "UpdateConfig" /\ IsEnabled) =>
        LET rs == cfg[1].Routes
            keyOf(i) == ToLower(TrimSpace(rs[i].Name))
            exact == IndexedRules(cfg, FALSE)
        IN /\ DOMAIN routes = {keyOf(i) : i \in exact}
           /\ \A i \in exact :
                 (\A j \in exact : keyOf(j) = keyOf(i) => j <= i)
                    => routes[keyOf(i)] = rs[i]
           /\ fuzzy = FuzzyIndexOf(cfg)

\* An enabled configuration in which two non-fuzzy rules share a lowercase
\* name and one rule has a blank name has been installed.
C31_Witness ==
    /\ ret.op = "UpdateConfig"
    /\ cfg = <<C_exact>>
    /\ routes = MapPut(EmptyMap, N_gptx, R_gptx)
    /\ fuzzy = <<R_gpt, R_FAST, R_fast>>


(***************************************************************************)
(* C32: in a run of UpdateQuotaFrom429 calls without retryAfter on one      *)
(* record, each made with the record's BackoffLevel, the level never        *)
(* decreases and the cooldown (NextRecoverAt minus now) never decreases     *)
(* and stays within the cap; a call with retryAfter leaves the level as it  *)
(* was; only ClearQuotaState takes the level back to 0.                     *)
(***************************************************************************)
C32_Scheduled ==
    /\ call'.op = "UpdateQuotaFrom429"
    /\ call'.retryAfter = <<>>
    /\ call'.backoffLevel = q.BackoffLevel

C32_Step ==
    /\ C32_Scheduled =>
          LET cooldown == q'.NextRecoverAt - call'.now
          IN /\ q'.BackoffLevel >= q.BackoffLevel
             /\ cooldown <= quotaBackoffMax
             /\ cooled # <<>> => cooldown >= cooled[1]
    /\ (call'.op = "UpdateQuotaFrom429" /\ call'.retryAfter # <<>>) =>
          q'.BackoffLevel = q.BackoffLevel
    /\ (q.BackoffLevel # 0 /\ q'.BackoffLevel = 0) => call'.op = "ClearQuotaState"

C32_BackoffMonotone == [][C32_Step]_vars

\* A run of scheduled calls has reached the cap, and a call with retryAfter
\* has then left the level where it was.
C32_Witness ==
    /\ call.op = "UpdateQuotaFrom429"
    /\ call.retryAfter # <<>>
    /\ cooled = <<quotaBackoffMax>>
    /\ q.BackoffLevel = 2


(***************************************************************************)
(* C33: UpdateQuotaFromInfo never clears an exhaustion mark. When info      *)
(* reports Remaining positive or unknown it leaves Exceeded, Reason,        *)
(* NextRecoverAt and BackoffLevel as they were, so a record marked          *)
(* exceeded stays marked exceeded after a fetch; a record marked exceeded   *)
(* and reported exhausted stops being reported exhausted only by            *)
(* ClearQuotaState or when the reset time it carries is no longer ahead.    *)
(***************************************************************************)
C33_Step ==
    /\ (call'.op = "UpdateQuotaFromInfo" /\ call'.info.Remaining # 0) =>
          /\ q'.Exceeded = q.Exceeded
          /\ q'.Reason = q.Reason
          /\ q'.NextRecoverAt = q.NextRecoverAt
          /\ q'.BackoffLevel = q.BackoffLevel
    /\ (call'.op = "UpdateQuotaFromInfo" /\ q.Exceeded) => q'.Exceeded
    /\ (q.Exceeded /\ IsQuotaExhausted(q, clock)[1] /\ ~IsQuotaExhausted(q', clock')[1]) =>
          \/ call'.op = "ClearQuotaState"
          \/ /\ q'.Exceeded
             /\ ~IsZero(GetEffectiveResetTime(q'))
             /\ ~After(GetEffectiveResetTime(q'), clock')

C33_FetchKeepsMark == [][C33_Step]_vars

\* A record marked exceeded by a scheduled 429 has since been given a fetch
\* that reports quota left, and it is still marked and reported exhausted.
C33_Witness ==
    /\ call.op = "UpdateQuotaFromInfo"
    /\ call.info.Remaining > 0
    /\ q.Exceeded /\ q.Reason = "quota" /\ q.BackoffLevel > 0
    /\ q.Remaining > 0 /\ q.Source = "api"
    /\ IsQuotaExhausted(q, clock)[1]


(***************************************************************************)
(* C34: GetCandidates and RecordSuccess are atomic with respect to          *)
(* UpdateConfig. A GetCandidates call that overlaps an UpdateConfig returns *)
(* a list it would return under the configuration before or after the       *)
(* update; when the update disables routing that is the old                 *)
(* configuration's list or the empty list. Stated here of the lists: every  *)
(* list a GetCandidates call returns is the list of some configuration      *)
(* that an UpdateConfig installs (the success cache is empty throughout).   *)
(***************************************************************************)
\* The list GetCandidates returns, without a cached model, when it runs
\* alone under configuration c.
C34_ListUnder(c, name) ==
    LET modelName == TrimSpace(name)
        lowerName == ToLower(modelName)
        exact == ExactIndexOf(c)
        hits == {i \in IndexedRules(c, TRUE) :
                    Contains(lowerName, ToLower(c[1].Routes[i].Name))}
        first == CHOOSE i \in hits : \A j \in hits : i <= j
    IN IF c = <<>> \/ ~c[1].Enabled \/ modelName = <<>> THEN <<>>
       ELSE IF lowerName \in DOMAIN exact THEN exact[lowerName].Candidates
       ELSE IF hits # {} THEN c[1].Routes[first].Candidates
       ELSE IF c[1].AutoSearch THEN autoSearchModels(modelName)
       ELSE <<>>

C34_AtomicWithUpdate ==
    \A p \in Readers :
        (frame[p].op = "GetCandidates" /\ frame[p].returned)
        => \E c \in RaceConfigs \cup {<<>>} :
              frame[p].result = C34_ListUnder(c, frame[p].modelName)


(***************************************************************************)
(* C35: no interleaving of concurrent UpdateConfig, GetCandidates,          *)
(* RecordSuccess and IsEnabled calls deadlocks. A goroutine that asks for   *)
(* the router lock holds neither the router lock nor the cache lock, so the *)
(* locks nest only as router lock, then cache lock; RecordSuccess asks for  *)
(* the cache lock and writes only after it has released the router lock;    *)
(* and every call returns in the end.                                       *)
(***************************************************************************)
C35_Holds(m, p) == m.writer = <<p>> \/ p \in m.readers

C35_AsksRouterLock(p) ==
    pc[p] \in {"UpdateConfig:Lock", "IsEnabled:RLock", "GetCandidates:RLock",
               "RecordSuccess:IsEnabled", "RecordSuccess:RLock", "IsEnabled():RLock"}

C35_LockOrder ==
    \A p \in RouterLockCallers :
        /\ C35_AsksRouterLock(p) => ~C35_Holds(rmu, p) /\ ~C35_Holds(kmu, p)
        /\ pc[p] \in {"RecordSuccess:cache.Set", "RecordSuccess:cache.Set:Locked"}
              => ~C35_Holds(rmu, p)

C35_NoDeadlock ==
    /\ []C35_LockOrder
    /\ <>[](\A p \in RouterLockCallers : pc[p] = "idle")

\* The updater waits for the router lock while the reader, inside it, holds
\* the cache lock and the reporter waits for the cache lock.
C35_Witness ==
    /\ pc["u1"] = "UpdateConfig:Locked" /\ ~Locked(rmu, "u1")
    /\ pc["r1"] = "GetCandidates:cache.Get"
    /\ pc["t1"] = "RecordSuccess:cache.Set:Locked" /\ ~Locked(kmu, "t1")
    /\ pc["e1"] = "IsEnabled():RLock"
    /\ pc["u2"] = "idle" /\ frame["u2"].op = "UpdateConfig"

(***************************************************************************)
(* Identity fingerprints: Service.GetOrCreateFingerprint, statement by     *)
(* statement, under concurrent callers.                                     *)
(***************************************************************************)
\* The User-Agent header of a request: absent, three versions of a client,
\* and a client without a version.
UA_absent == <<>>
UA_2_0_9 == <<"c", "/", "2", ".", "0", ".", "9">>
UA_2_0_100 == <<"c", "/", "2", ".", "0", ".", "1", "0", "0">>
UA_2_1_0 == <<"c", "/", "2", ".", "1", ".", "0">>
UA_curl == <<"c", "u", "r", "l">>
UserAgents == {UA_absent, UA_2_0_9, UA_2_0_100, UA_2_1_0, UA_curl}

\* The auth IDs of the callers: "" and one account.
AuthIDs == {<<>>, A_a}

\* defaultFingerprint.UserAgent: "claude-cli/2.0.62 (external, cli)"
defaultUserAgent ==
    <<"c", "l", "a", "u", "d", "e", "-", "c", "l", "i", "/", "2", ".", "0", ".",
      "6", "2", " ", "(", "e", "x", "t", "e", "r", "n", "a", "l", ",", " ", "c",
      "l", "i", ")">>

\* The length of the run of digits of s that starts at index i.
RECURSIVE digitRun(_, _)
digitRun(s, i) ==
    IF i <= Len(s) /\ s[i] \in Digits THEN 1 + digitRun(s, i + 1) ELSE 0

\* strconv.Atoi of a run of digits.
RECURSIVE atoiDigits(_)
atoiDigits(d) ==
    IF d = <<>> THEN 0
    ELSE 10 * atoiDigits(SubSeq(d, 1, Len(d) - 1))
         + (CHOOSE v \in 0..9 : DigitChars[v + 1] = d[Len(d)])

\* userAgentVersionRegex, /(\d+)\.(\d+)\.(\d+), tried at index i of ua: the
\* three numbers of the match, or <<>>.
versionAt(ua, i) ==
    LET a == digitRun(ua, i + 1)
        dot1 == i + a + 1
        b == digitRun(ua, dot1 + 1)
        dot2 == dot1 + b + 1
        c == digitRun(ua, dot2 + 1)
    IN IF /\ ua[i] = "/" /\ a > 0
          /\ dot1 <= Len(ua) /\ ua[dot1] = "." /\ b > 0
          /\ dot2 <= Len(ua) /\ ua[dot2] = "." /\ c > 0
       THEN <<atoiDigits(SubSeq(ua, i + 1, dot1 - 1)),
              atoiDigits(SubSeq(ua, dot1 + 1, dot2 - 1)),
              atoiDigits(SubSeq(ua, dot2 + 1, dot2 + c))>>
       ELSE <<>>

\* parseUserAgentVersion(ua): <<major, minor, patch>> of the leftmost match,
\* or <<>> when ok is false.
parseUserAgentVersion(ua) ==
    LET hits == {i \in 1..Len(ua) : versionAt(ua, i) # <<>>}
    IN IF hits = {} THEN <<>>
       ELSE versionAt(ua, CHOOSE i \in hits : \A j \in hits : i <= j)

\* isNewerVersion(newUA, cachedUA)
isNewerVersion(newUA, cachedUA) ==
    LET new == parseUserAgentVersion(newUA)
        cached == parseUserAgentVersion(cachedUA)
    IN IF new = <<>> \/ cached = <<>> THEN FALSE
       ELSE IF new[1] > cached[1] THEN TRUE
       ELSE IF new[1] < cached[1] THEN FALSE
       ELSE IF new[2] > cached[2] THEN TRUE
       ELSE IF new[2] < cached[2] THEN FALSE
       ELSE new[3] > cached[3]

\* createFingerprintFromHeaders(headers): the x-stainless-* fields, which
\* are copied from the headers or the defaults and never written again, are
\* left out.
createFingerprintFromHeaders(userAgent) ==
    [ClientID |-> <<>>,
     UserAgent |-> IF userAgent # <<>> THEN userAgent ELSE defaultUserAgent]

\* generateClientID(): 32 random bytes, distinct from call to call; the call
\* of goroutine p yields the one named after p.
generateClientID(p) == <<"id", p>>

\* A string read while another goroutine stores one over it: the data of
\* one with the length of the other.
tornString(data, other) ==
    SubSeq(data, 1, IF Len(other) < Len(data) THEN Len(other) ELSE Len(data))

\* What a read of the UserAgent field at address a can return without the
\* lock: the string in place or, while a goroutine is at the assignment of
\* line 45, the string being stored or a mix of the two.
readsOfUserAgent(a) ==
    LET e == fpheap[a]
    IN IF e.storing = <<>> THEN {e.UserAgent}
       ELSE {e.UserAgent, e.storing[1],
             tornString(e.UserAgent, e.storing[1]),
             tornString(e.storing[1], e.UserAgent)}

\* What the statements of GetOrCreateFingerprint leave alone.
identityRest ==
    <<quotaVars, routerVars, quotaCacheVars, funcVars, rmu, cmu, heap, published, kmu>>

\* GetOrCreateFingerprint(authID, headers) is called; if authID == "" {
\* return nil }
FP_Call(p) ==
    /\ pc[p] = "idle"
    /\ \E authID \in AuthIDs, userAgent \in UserAgents :
          IF authID = <<>>
          THEN /\ Local(p, [op |-> "GetOrCreateFingerprint", authID |-> authID,
                            clientUA |-> userAgent, cached |-> 0, fp |-> <<>>,
                            overwrote |-> <<>>, result |-> <<>>, returned |-> TRUE])
               /\ UNCHANGED pc
          ELSE /\ Local(p, [op |-> "GetOrCreateFingerprint", authID |-> authID,
                            clientUA |-> userAgent, cached |-> 0, fp |-> <<>>,
                            overwrote |-> <<>>, result |-> <<>>, returned |-> FALSE])
               /\ Goto(p, "GetOrCreate:RLock")
    /\ UNCHANGED <<imu, idcache, fpheap, identityRest>>

\* s.mu.RLock()
FP_RLock(p) ==
    /\ pc[p] = "GetOrCreate:RLock"
    /\ CanRLock(imu)
    /\ imu' = RLock(imu, p)
    /\ Goto(p, "GetOrCreate:lookup")
    /\ UNCHANGED <<frame, idcache, fpheap, identityRest>>

\* cached, exists := s.cache[authID]; s.mu.RUnlock(); if exists && cached != nil
FP_Lookup(p) ==
    /\ pc[p] = "GetOrCreate:lookup"
    /\ imu' = RUnlock(imu, p)
    /\ IF frame[p].authID \in DOMAIN idcache
       THEN /\ Local(p, [frame[p] EXCEPT !.cached = idcache[frame[p].authID]])
            /\ Goto(p, "GetOrCreate:isNewer")
       ELSE /\ UNCHANGED frame
            /\ Goto(p, "GetOrCreate:create")
    /\ UNCHANGED <<idcache, fpheap, identityRest>>

\* clientUA := headers.Get("User-Agent");
\* if clientUA != "" && isNewerVersion(clientUA, cached.UserAgent): the
\* field is read without the lock
FP_IsNewer(p) ==
    /\ pc[p] = "GetOrCreate:isNewer"
    /\ \E cachedUA \in readsOfUserAgent(frame[p].cached) :
          IF frame[p].clientUA # <<>> /\ isNewerVersion(frame[p].clientUA, cachedUA)
          THEN Goto(p, "GetOrCreate:update:Lock")
          ELSE Goto(p, "GetOrCreate:Clone")
    /\ UNCHANGED <<frame, imu, idcache, fpheap, identityRest>>

\* s.mu.Lock() of the update: the call
FP_UpdateLock(p) ==
    /\ pc[p] = "GetOrCreate:update:Lock"
    /\ CanLock(imu)
    /\ imu' = Lock(imu, p)
    /\ Goto(p, "GetOrCreate:update:Locked")
    /\ UNCHANGED <<frame, idcache, fpheap, identityRest>>

\* s.mu.Lock() returns; if current, ok := s.cache[authID]; ok && current !=
\* nil { current.UserAgent = clientUA ...: the assignment begins
FP_UpdateStore(p) ==
    /\ pc[p] = "GetOrCreate:update:Locked"
    /\ Locked(imu, p)
    /\ IF frame[p].authID \in DOMAIN idcache
       THEN LET current == idcache[frame[p].authID]
            IN /\ fpheap' = [fpheap EXCEPT ![current].storing = <<frame[p].clientUA>>]
               /\ Local(p, [frame[p] EXCEPT !.overwrote = <<fpheap[current].UserAgent>>])
               /\ Goto(p, "GetOrCreate:update:stored")
       ELSE /\ UNCHANGED <<fpheap, frame>>
            /\ Goto(p, "GetOrCreate:update:Unlock")
    /\ UNCHANGED <<imu, idcache, identityRest>>

\* current.UserAgent = clientUA: the assignment is complete
FP_UpdateStored(p) ==
    /\ pc[p] = "GetOrCreate:update:stored"
    /\ LET current == idcache[frame[p].authID]
       IN fpheap' = [fpheap EXCEPT ![current].UserAgent = fpheap[current].storing[1],
                                   ![current].storing = <<>>]
    /\ Goto(p, "GetOrCreate:update:Unlock")
    /\ UNCHANGED <<frame, imu, idcache, identityRest>>

\* s.mu.Unlock() of the update
FP_UpdateUnlock(p) ==
    /\ pc[p] = "GetOrCreate:update:Unlock"
    /\ imu' = Unlock(imu, p)
    /\ Goto(p, "GetOrCreate:Clone")
    /\ UNCHANGED <<frame, idcache, fpheap, identityRest>>

\* fp := createFingerprintFromHeaders(headers); fp.ClientID = generateClientID()
FP_Create(p) ==
    /\ pc[p] = "GetOrCreate:create"
    /\ Local(p, [frame[p] EXCEPT
                    !.fp = <<[createFingerprintFromHeaders(frame[p].clientUA)
                                 EXCEPT !.ClientID = generateClientID(p)]>>])
    /\ Goto(p, "GetOrCreate:create:Lock")
    /\ UNCHANGED <<imu, idcache, fpheap, identityRest>>

\* s.mu.Lock() of the creation: the call
FP_CreateLock(p) ==
    /\ pc[p] = "GetOrCreate:create:Lock"
    /\ CanLock(imu)
    /\ imu' = Lock(imu, p)
    /\ Goto(p, "GetOrCreate:create:Locked")
    /\ UNCHANGED <<frame, idcache, fpheap, identityRest>>

\* Variant: the new fingerprint is stored without the second look.
FP_CreateStore_noSecondLook(p) ==
    /\ pc[p] = "GetOrCreate:create:Locked"
    /\ Locked(imu, p)
    /\ imu' = Unlock(imu, p)
    /\ fpheap' = Append(fpheap, [ClientID |-> frame[p].fp[1].ClientID,
                                 UserAgent |-> frame[p].fp[1].UserAgent,
                                 storing |-> <<>>])
    /\ idcache' = MapPut(idcache, frame[p].authID, Len(fpheap) + 1)
    /\ Local(p, [frame[p] EXCEPT !.cached = Len(fpheap) + 1])
    /\ Goto(p, "GetOrCreate:Clone")
    /\ UNCHANGED identityRest

\* s.mu.Lock() returns; if existing, ok := s.cache[authID]; ok && existing
\* != nil { s.mu.Unlock() ... }; s.cache[authID] = fp; s.mu.Unlock()
FP_CreateStore(p) ==
    /\ pc[p] = "GetOrCreate:create:Locked"
    /\ Locked(imu, p)
    /\ imu' = Unlock(imu, p)
    /\ IF frame[p].authID \in DOMAIN idcache
       THEN /\ Local(p, [frame[p] EXCEPT !.cached = idcache[frame[p].authID]])
            /\ UNCHANGED <<idcache, fpheap>>
       ELSE /\ fpheap' = Append(fpheap, [ClientID |-> frame[p].fp[1].ClientID,
                                         UserAgent |-> frame[p].fp[1].UserAgent,
                                         storing |-> <<>>])
            /\ idcache' = MapPut(idcache, frame[p].authID, Len(fpheap) + 1)
            /\ Local(p, [frame[p] EXCEPT !.cached = Len(fpheap) + 1])
    /\ Goto(p, "GetOrCreate:Clone")
    /\ UNCHANGED identityRest

\* return cached.Clone(), return existing.Clone(), return fp.Clone(): the
\* fields are read without the lock
FP_Clone(p) ==
    /\ pc[p] = "GetOrCreate:Clone"
    /\ \E userAgent \in readsOfUserAgent(frame[p].cached) :
          Local(p, [frame[p] EXCEPT
                       !.result = <<[ClientID |-> fpheap[frame[p].cached].ClientID,
                                     UserAgent |-> userAgent]>>,
                       !.returned = TRUE])
    /\ Goto(p, "idle")
    /\ UNCHANGED <<imu, idcache, fpheap, identityRest>>

IdentityNext ==
    \E p \in Clients :
        \/ Once(p) /\ FP_Call(p)
        \/ FP_RLock(p)
        \/ FP_Lookup(p)
        \/ FP_IsNewer(p)
        \/ FP_UpdateLock(p)
        \/ FP_UpdateStore(p)
        \/ FP_UpdateStored(p)
        \/ FP_UpdateUnlock(p)
        \/ FP_Create(p)
        \/ FP_CreateLock(p)
        \/ FP_CreateStore(p)
        \/ FP_Clone(p)

\* A new Service (an empty cache) under three goroutines that call
\* GetOrCreateFingerprint once each, in any order and at any time.
IdentitySpec == InitRouter /\ [][IdentityNext]_vars

(***************************************************************************)
(* C36: GetOrCreateFingerprint is first-writer-wins. Under concurrent calls *)
(* for one non-empty auth ID, the fingerprint stored for the auth ID is     *)
(* never replaced by another one and its ClientID never changes, and every  *)
(* call that has returned carries the ClientID of the stored fingerprint.   *)
(***************************************************************************)
C36_Returned(p) ==
    frame[p].op = "GetOrCreateFingerprint" /\ frame[p].returned /\ frame[p].authID # <<>>

C36_SameClientID ==
    \A p \in Clients :
        C36_Returned(p)
        => /\ frame[p].authID \in DOMAIN idcache
           /\ frame[p].result # <<>>
           /\ frame[p].result[1].ClientID = fpheap[idcache[frame[p].authID]].ClientID

C36_Kept ==
    \A a \in DOMAIN idcache :
        /\ a \in DOMAIN idcache'
        /\ idcache'[a] = idcache[a]
        /\ fpheap'[idcache[a]].ClientID = fpheap[idcache[a]].ClientID

C36_FirstWriterWins == []C36_SameClientID /\ [][C36_Kept]_vars

\* All three callers have returned for the same auth ID: two of them had
\* made a fingerprint of their own, and one of these was stored.
C36_Witness ==
    /\ \A p \in Clients : C36_Returned(p)
    /\ frame["c1"].fp # <<>> /\ frame["c2"].fp # <<>>
    /\ frame["c1"].result[1].ClientID = generateClientID("c2")
    /\ frame["c3"].result[1].ClientID = generateClientID("c2")

(***************************************************************************)
(* C37: GetOrCreateFingerprint replaces the cached user-agent of an auth ID *)
(* only with a strictly newer version: the version of the cached           *)
(* user-agent never decreases, and once all calls have returned the cached  *)
(* user-agent is the newest of the one stored first and the ones the calls  *)
(* presented.                                                               *)
(***************************************************************************)
C37_Presented(p) ==
    frame[p].op = "GetOrCreateFingerprint" /\ frame[p].authID # <<>>

\* overwrote is the user-agent a call found in place when it stored its own.
C37_NeverDecreases ==
    \A p \in Clients :
        (C37_Presented(p) /\ frame[p].overwrote # <<>>)
        => ~isNewerVersion(frame[p].overwrote[1], frame[p].clientUA)

C37_NewestAtTheEnd ==
    (\A p \in Clients : pc[p] = "idle")
    => \A p \in Clients :
          (C37_Presented(p) /\ frame[p].authID \in DOMAIN idcache)
          => ~isNewerVersion(frame[p].clientUA,
                             fpheap[idcache[frame[p].authID]].UserAgent)

C37_NeverOlder == C37_NeverDecreases /\ C37_NewestAtTheEnd

=============================================================================
